---- MODULE Spec2Model ----
(***************************************************************************)
(* Real-time audio core of the week06 scripts:                             *)
(*   7_interactive_effects.py  AudioEffectsProcessor  (prog = "effects")   *)
(*   8_beat_detector.py        BeatDetector           (prog = "beat")      *)
(*   9_advanced_recorder.py    AdvancedAudioRecorder  (prog = "recorder")  *)
(* Each script is its own process; prog says which one a behaviour runs.   *)
(*                                                                         *)
(* Threads: the PortAudio capture callback, the PortAudio playback         *)
(* callback (effects only), the daemon thread running process_audio, and   *)
(* the GUI thread delivering key presses.  queue.Queue operations are      *)
(* atomic (the queue's own mutex); every other attribute access is a plain *)
(* unsynchronised read or write, so process_audio is cut into one step per *)
(* shared attribute it reads.                                              *)
(*                                                                         *)
(* Numbers: samples are fixed point, 1000 = 1.0 (float32 in the code);     *)
(* reverb_decay, echo_delay, echo_feedback and distortion_gain are in      *)
(* tenths; filter_cutoff is in Hz.                                         *)
(***************************************************************************)
EXTENDS Integers, Sequences, FiniteSets, TLC

VARIABLES
    prog,             \* which script is running
    engine,           \* the main thread in run / cleanup, the streams, the PortAudio handle
    params,           \* effects: the ten effect attributes set in __init__
    input_queue,      \* effects: capture -> processing
    output_queue,     \* effects: processing -> playback
    input_buffer,     \* effects: rolling input window (visualization)
    output_buffer,    \* effects: rolling output window (visualization)
    echo_buffer,      \* effects: echo delay line
    audio_queue,      \* beat / recorder: capture -> processing
    proc,             \* the process_audio thread: pc and locals
    cb,               \* the callbacks: position of the recorder's callback,
                      \* last returned tuples, exception that left a callback
    beat,             \* beat detector state
    rec,              \* recorder state
    nextId,           \* ghost: frames delivered by the capture callback so far
    hist,             \* ghost: ids of the frames dropped, evicted, dequeued,
                      \* produced and handed to playback, in the order it happened
    keys,             \* ghost: key presses so far
    seen              \* ghost: every content the parameter store has had

vars == <<prog, engine, params, input_queue, output_queue, input_buffer, output_buffer,
          echo_buffer, audio_queue, proc, cb, beat, rec, nextId, hist, keys, seen>>

-----------------------------------------------------------------------------
(* Bounds of the model *)

\* samples per frame (frames_per_buffer; 512 in the effects script, 1024 in the others)
CHUNK == 2
\* samples per second of the modelled time axis (44100 in the code): the delay
\* line, the rolling windows and the delays in samples all scale with it
SR == 60
\* maxsize of input_queue, output_queue and the beat detector's audio_queue (50)
QUEUE_MAXSIZE == 2
\* maxsize of the recorder's audio_queue (100)
REC_QUEUE_MAXSIZE == 2
\* capture callbacks per behaviour
MaxFrames == 3
\* key presses per behaviour where they interleave with processing
MaxKeys == 2
\* capture callbacks per behaviour where key presses interleave with processing
MaxChainFrames == 1
\* frames of a steady source run through the effect chain, one after the other
MaxStageFrames == 62
\* calls of detect_beats per behaviour when it is fed onset values directly
MaxOnsets == 5
\* impulses of the 120 BPM onset sequence per behaviour
MaxImpulses == 7
\* calls of detect_beats per behaviour after a start state with some history
MaxOnsetCalls == 4
\* longest chunk handed to compute_onset_strength on its own
MaxChunkLen == 4
\* the clock reading, in ms, when the first onset value arrives; time.time()
\* is far above last_beat_time = 0, so the first beat is never too early
ClockStart == 1000

(* Program constants *)
RATE == 44100
ECHO_FEEDBACK == 4
INIT_REVERB_DECAY == 5
INIT_ECHO_DELAY == 3
INIT_FILTER_CUTOFF == 1000
INIT_DISTORTION_GAIN == 20

NONE == "none"

-----------------------------------------------------------------------------
(* Sequences and fixed-point arithmetic *)

Zeros(n) == [i \in 1..n |-> 0]

Abs(x) == IF x < 0 THEN -x ELSE x

Max2(a, b) == IF a >= b THEN a ELSE b

Min2(a, b) == IF a <= b THEN a ELSE b

\* x * num / den rounded toward zero
MulDiv(x, num, den) ==
    IF x * num >= 0 THEN (x * num) \div den ELSE -((-(x * num)) \div den)

RECURSIVE SumSeq(_)
SumSeq(s) == IF s = <<>> THEN 0 ELSE Head(s) + SumSeq(Tail(s))

\* variant of the roll that shifts towards the end: np.roll(buf, n)
RollForward(buf, n) ==
    [j \in 1..Len(buf) |-> buf[((j - 1 + Len(buf) - (n % Len(buf))) % Len(buf)) + 1]]

\* np.roll(buf, -n): element j of the result is element (j + n) mod len of buf
Roll(buf, n) ==
    [j \in 1..Len(buf) |-> buf[((j - 1 + n) % Len(buf)) + 1]]

\* buf[-len(data):] = data
WriteTail(buf, data) ==
    [j \in 1..Len(buf) |->
        IF j > Len(buf) - Len(data) THEN data[j - (Len(buf) - Len(data))] ELSE buf[j]]

\* s is an order-preserving subsequence of t
RECURSIVE IsSubseq(_, _)
IsSubseq(s, t) ==
    IF s = <<>> THEN TRUE
    ELSE IF t = <<>> THEN FALSE
    ELSE IF Head(s) = Head(t) THEN IsSubseq(Tail(s), Tail(t))
    ELSE IsSubseq(s, Tail(t))

NoDuplicates(s) == \A i, j \in 1..Len(s) : i # j => s[i] # s[j]

-----------------------------------------------------------------------------
(* queue.Queue(maxsize): put(block=False) raises Full when qsize >= maxsize, *)
(* get_nowait raises Empty when the queue holds nothing; both are atomic.    *)

QFull(q, maxsize) == Len(q) >= maxsize

QEmpty(q) == Len(q) = 0

QPut(q, item) == Append(q, item)

QGetItem(q) == Head(q)

QGetRest(q) == Tail(q)

-----------------------------------------------------------------------------
(* AudioEffectsProcessor: the parameter attributes and on_key_press *)

FilterTypes == <<"low", "high", "band">>

InitParams ==
    [reverb_enabled |-> FALSE, echo_enabled |-> FALSE,
     filter_enabled |-> FALSE, distortion_enabled |-> FALSE,
     reverb_decay |-> INIT_REVERB_DECAY, echo_delay |-> INIT_ECHO_DELAY,
     echo_feedback |-> ECHO_FEEDBACK, filter_cutoff |-> INIT_FILTER_CUTOFF,
     filter_type |-> "low", distortion_gain |-> INIT_DISTORTION_GAIN]

Keys == {"r", "e", "f", "d", "1", "2", "3", "4", "5", "6", "7", "8", "9", "q"}

\* filter_types.index(self.filter_type)
FilterTypeIndex(t) == CHOOSE i \in 1..Len(FilterTypes) : FilterTypes[i] = t

\* on_key_press with the clamps left out of the adjusting keys
OnKeyPressUnclamped(p, key) ==
    CASE key = "r" -> [p EXCEPT !.reverb_enabled = ~@]
      [] key = "e" -> [p EXCEPT !.echo_enabled = ~@]
      [] key = "f" -> [p EXCEPT !.filter_enabled = ~@]
      [] key = "d" -> [p EXCEPT !.distortion_enabled = ~@]
      [] key = "1" -> [p EXCEPT !.reverb_decay = @ - 1]
      [] key = "2" -> [p EXCEPT !.reverb_decay = @ + 1]
      [] key = "3" -> [p EXCEPT !.echo_delay = @ - 1]
      [] key = "4" -> [p EXCEPT !.echo_delay = @ + 1]
      [] key = "5" -> [p EXCEPT !.filter_cutoff = @ - 200]
      [] key = "6" -> [p EXCEPT !.filter_cutoff = @ + 200]
      [] key = "7" -> [p EXCEPT !.filter_type =
                          FilterTypes[(FilterTypeIndex(@) % Len(FilterTypes)) + 1]]
      [] key = "8" -> [p EXCEPT !.distortion_gain = @ - 5]
      [] key = "9" -> [p EXCEPT !.distortion_gain = @ + 5]
      [] OTHER -> p

\* The attribute values after on_key_press(event) with event.key = key.
\* The clamping constants are exact in the code's arithmetic, so the tenths
\* stand for max(0.1, x - 0.1), min(0.9, x + 0.1), ... without loss for the range.
OnKeyPress(p, key) ==
    CASE key = "r" -> [p EXCEPT !.reverb_enabled = ~@]
      [] key = "e" -> [p EXCEPT !.echo_enabled = ~@]
      [] key = "f" -> [p EXCEPT !.filter_enabled = ~@]
      [] key = "d" -> [p EXCEPT !.distortion_enabled = ~@]
      [] key = "1" -> [p EXCEPT !.reverb_decay = Max2(1, @ - 1)]
      [] key = "2" -> [p EXCEPT !.reverb_decay = Min2(9, @ + 1)]
      [] key = "3" -> [p EXCEPT !.echo_delay = Max2(1, @ - 1)]
      [] key = "4" -> [p EXCEPT !.echo_delay = Min2(10, @ + 1)]
      [] key = "5" -> [p EXCEPT !.filter_cutoff = Max2(100, @ - 200)]
      [] key = "6" -> [p EXCEPT !.filter_cutoff = Min2(8000, @ + 200)]
      [] key = "7" -> [p EXCEPT !.filter_type =
                          FilterTypes[(FilterTypeIndex(@) % Len(FilterTypes)) + 1]]
      [] key = "8" -> [p EXCEPT !.distortion_gain = Max2(10, @ - 5)]
      [] key = "9" -> [p EXCEPT !.distortion_gain = Min2(50, @ + 5)]
      [] OTHER -> p    \* 'q' closes the figure and changes no attribute

-----------------------------------------------------------------------------
(* The effect stages.  Each takes the frame and the attribute values the    *)
(* stage read; the enabled test is the caller's first read.                 *)

\* np.tanh on fixed point: the (3,2) Pade approximant z (27 + z^2) / (27 + 9 z^2),
\* saturating at |z| >= 3.0
Tanh(z) ==
    IF z >= 3000 THEN 1000
    ELSE IF z <= -3000 THEN -1000
    ELSE MulDiv(z, 27000 + (z * z) \div 1000, 27000 + 9 * ((z * z) \div 1000))

\* variant of apply_distortion whose clipping curve does not pass through zero
DistortWithOffset(chunk, gain) ==
    [i \in 1..Len(chunk) |-> MulDiv(Tanh(MulDiv(chunk[i], gain, 10)) + 1000, 1, 2)]

\* apply_distortion, past the enabled test: tanh(chunk * gain) * 0.5
Distort(chunk, gain) ==
    [i \in 1..Len(chunk) |-> MulDiv(Tanh(MulDiv(chunk[i], gain, 10)), 1, 2)]

\* variant of the reverb delay that is shorter than a frame
ReverbDelayWithinFrame == CHUNK - 1

\* int(0.05 * RATE) on the modelled time axis
ReverbDelaySamples == (5 * SR) \div 100

\* the loop of apply_reverb over positions k..Len(out), in place on out
RECURSIVE ReverbLoop(_, _, _, _)
ReverbLoop(out, k, d, decay) ==
    IF k > Len(out) THEN out
    ELSE IF k - 1 >= d
         THEN ReverbLoop([out EXCEPT ![k] = @ + MulDiv(out[k - d], decay, 10)],
                         k + 1, d, decay)
         ELSE ReverbLoop(out, k + 1, d, decay)

\* apply_reverb, past the enabled test
Reverb(chunk, decay) ==
    LET out == ReverbLoop(chunk, 1, ReverbDelaySamples, decay)
    IN  [i \in 1..Len(out) |-> MulDiv(out[i], 7, 10)]

\* int(self.echo_delay * self.RATE) on the modelled time axis
EchoDelaySamples(echo_delay) == (echo_delay * SR) \div 10

\* variant of apply_echo that feeds the delayed sample back at full level
EchoOutputUnitFeedback(chunk, buf, delay_samples, feedback) ==
    [k \in 1..Len(chunk) |->
        IF k - 1 < Len(buf) - delay_samples
        THEN chunk[k] + buf[k + delay_samples]
        ELSE chunk[k]]

\* apply_echo, past the enabled test: the frame it returns
EchoOutput(chunk, buf, delay_samples, feedback) ==
    [k \in 1..Len(chunk) |->
        IF k - 1 < Len(buf) - delay_samples
        THEN chunk[k] + MulDiv(buf[k + delay_samples], feedback, 10)
        ELSE chunk[k]]

\* apply_echo: the delay line after the call
EchoBufferAfter(buf, output) == WriteTail(Roll(buf, Len(output)), output)

\* normalized_cutoff = filter_cutoff / (RATE / 2), in thousandths
NormalizedCutoff(cutoff) == (cutoff * 2000) \div RATE

\* signal.butter raises for a critical frequency outside (0, 1); the band
\* edges are max(nc - 0.1, 0.01) and min(nc + 0.1, 0.99)
FilterDesignRaises(ftype, nc) ==
    IF ftype \in {"low", "high"}
    THEN ~(0 < nc /\ nc < 1000)
    ELSE ~(Max2(nc - 100, 10) < Min2(nc + 100, 990))

\* signal.butter + signal.filtfilt live in scipy, outside the repository.
\* Stand-in: a linear, zero-phase, frame-local filter whose output differs
\* from its input: low keeps the frame mean plus nc of the deviation from it,
\* high keeps the rest, band keeps half of the deviation.
FilterResponse(chunk, ftype, nc) ==
    LET mean == SumSeq(chunk) \div Len(chunk)
        low == [i \in 1..Len(chunk) |-> mean + MulDiv(chunk[i] - mean, nc, 1000)]
    IN  CASE ftype = "low" -> low
          [] ftype = "high" -> [i \in 1..Len(chunk) |-> chunk[i] - low[i]]
          [] OTHER -> [i \in 1..Len(chunk) |-> MulDiv(chunk[i] - mean, 1, 2)]

\* variant of apply_filter whose except branch returns silence
FilterSilenceOnError(chunk, cutoff, ftype) ==
    IF FilterDesignRaises(ftype, NormalizedCutoff(cutoff))
    THEN Zeros(Len(chunk))
    ELSE FilterResponse(chunk, ftype, NormalizedCutoff(cutoff))

\* apply_filter, past the enabled test: the except branch returns the frame as is
Filter(chunk, cutoff, ftype) ==
    IF FilterDesignRaises(ftype, NormalizedCutoff(cutoff))
    THEN chunk
    ELSE FilterResponse(chunk, ftype, NormalizedCutoff(cutoff))

-----------------------------------------------------------------------------
(* Initial state: the objects as their __init__ leaves them *)

Progs == {"effects", "beat", "recorder"}

ParamFields ==
    {"reverb_enabled", "echo_enabled", "filter_enabled", "distortion_enabled",
     "reverb_decay", "echo_delay", "echo_feedback", "filter_cutoff",
     "filter_type", "distortion_gain"}

\* ROLLING_WINDOW = 2 * RATE, echo_buffer = int(RATE * 2), BUFFER_SIZE = 4 * RATE
ROLLING_WINDOW == 2 * SR

ECHO_BUFFER_LEN == SR * 2

BUFFER_SIZE == 4 * SR

InitProc ==
    [pc |-> "check", audio_chunk |-> NONE, processed |-> <<>>,
     used |-> InitParams, read |-> {},
     \* ghost: the delay line as the frame in progress found it
     echo_before |-> <<>>]

\* what the playback callback last returned (nothing yet: status NONE)
NoReturn == [data |-> <<>>, status |-> NONE, frame_count |-> 0, underrun |-> FALSE]

InitCb ==
    [pc |-> "idle", item |-> NONE, in_ret |-> NONE, out_ret |-> NoReturn,
     escaped |-> NONE, now |-> 0]

InitHist ==
    [dropped |-> <<>>, evicted |-> <<>>, dequeued |-> <<>>, produced |-> <<>>,
     out_dropped |-> <<>>, played |-> <<>>]

\* frames the capture device can deliver to the effects processor and the beat detector
InputFrames ==
    {Zeros(CHUNK), [i \in 1..CHUNK |-> IF i % 2 = 1 THEN 1000 ELSE -600]}

\* frame_count values PortAudio passes to the playback callback
FrameCounts == {CHUNK}

-----------------------------------------------------------------------------
(* The main thread: run() sits in plt.show() until the window closes, then  *)
(* cleanup() stops and closes the streams and terminates PortAudio.         *)

(* input_stream and output_stream are the streams the attributes refer to   *)
(* ("absent": no such attribute, or None; the beat detector and the         *)
(* recorder have one attribute, stream, held in input_stream).  leaked is a *)
(* stream PortAudio opened that no attribute refers to.                     *)

InitEngine ==
    [pc |-> "show", input_stream |-> "active",
     output_stream |-> IF prog = "effects" THEN "active" ELSE "absent", p |-> "up",
     leaked |-> "none", interrupted |-> FALSE]

\* setup_audio of the effects processor: both streams opened; the second
\* p.open raised after the first succeeded; no device, or the first raised
SetupOutcomesEffects ==
    {InitEngine,
     [InitEngine EXCEPT !.output_stream = "absent"],
     [InitEngine EXCEPT !.input_stream = "absent", !.output_stream = "absent"]}

\* setup_audio of the beat detector and of the recorder: the stream opened
\* and started; no device (no attribute) or p.open raised (stream = None);
\* p.open succeeded and a later statement of the try block raised, so that
\* the except branch set self.stream = None over the open stream
SetupOutcomesStream ==
    {InitEngine,
     [InitEngine EXCEPT !.input_stream = "absent"],
     [InitEngine EXCEPT !.input_stream = "absent", !.leaked = "active"]}

-----------------------------------------------------------------------------
(* BeatDetector.  Times are in milliseconds, onset strengths are fixed      *)
(* point (100 = 1.0), tempi are in thousandths of a BPM.                    *)

MIN_BPM == 60
MAX_BPM == 180
BEAT_THRESHOLD == 30
ONSET_BUFFER_LEN == 200
INIT_TEMPO == 120000

InitBeat ==
    [audio_buffer |-> Zeros(BUFFER_SIZE), onset_buffer |-> Zeros(ONSET_BUFFER_LEN),
     beat_times |-> <<>>, tempo_history |-> <<>>,
     last_beat_time |-> 0, current_tempo |-> INIT_TEMPO]

\* s[-n:]
LastN(s, n) == SubSeq(s, Max2(1, Len(s) - n + 1), Len(s))

SumSquares(s) == SumSeq([i \in 1..Len(s) |-> s[i] * s[i]])

\* window_size and hop_size of compute_onset_strength on the modelled time
\* axis: the window is one beat-detector CHUNK (1024), the hop half of it (512)
WINDOW_SIZE == CHUNK

HOP_SIZE == Max2(1, WINDOW_SIZE \div 2)

\* number of columns signal.spectrogram returns
SpectrogramColumns(n) == (n - (WINDOW_SIZE - HOP_SIZE)) \div HOP_SIZE

\* Stand-in for one column of np.abs(stft) summed over its bins (scipy is
\* outside the repository): the magnitude of segment j
ColumnMagnitude(chunk, j) ==
    SumSeq([i \in 1..WINDOW_SIZE |-> Abs(chunk[(j - 1) * HOP_SIZE + i])])

\* variant of compute_onset_strength that returns the level of the chunk, so
\* that one sub-frame is enough
ComputeOnsetStrengthLevel(chunk) ==
    IF Len(chunk) < WINDOW_SIZE THEN 0
    ELSE ColumnMagnitude(chunk, 1) \div 10

\* variant of compute_onset_strength that keeps the falling part of the flux
ComputeOnsetStrengthSigned(chunk) ==
    IF Len(chunk) < WINDOW_SIZE THEN 0
    ELSE LET cols == SpectrogramColumns(Len(chunk))
         IN  IF cols > 1
             THEN SumSeq([j \in 1..(cols - 1) |->
                            ColumnMagnitude(chunk, j + 1) - ColumnMagnitude(chunk, j)])
                  \div (10 * (cols - 1))
             ELSE 0

\* compute_onset_strength
ComputeOnsetStrength(chunk) ==
    IF Len(chunk) < WINDOW_SIZE THEN 0
    ELSE LET cols == SpectrogramColumns(Len(chunk))
         IN  IF cols > 1
             THEN SumSeq([j \in 1..(cols - 1) |->
                            Max2(ColumnMagnitude(chunk, j + 1) - ColumnMagnitude(chunk, j), 0)])
                  \div (10 * (cols - 1))
             ELSE 0

\* variant of the adaptive threshold at mean + 3 std
AboveAdaptiveThresholdWide(onset_strength, onset_buffer) ==
    LET w == LastN(onset_buffer, 20)
        d == Len(w) * onset_strength - SumSeq(w)
        v == Len(w) * SumSquares(w) - SumSeq(w) * SumSeq(w)
    IN  d > 0 /\ d * d > 9 * v

\* onset_strength > recent_mean + ONSET_THRESHOLD * recent_std over the last
\* 20 entries: with d = 20 s - sum and v = 20 sumsq - sum^2 (both scaled by
\* 20), s - mean > 0.1 std is d > 0 and 100 d^2 > v
AboveAdaptiveThreshold(onset_strength, onset_buffer) ==
    LET w == LastN(onset_buffer, 20)
        d == Len(w) * onset_strength - SumSeq(w)
        v == Len(w) * SumSquares(w) - SumSeq(w) * SumSeq(w)
    IN  d > 0 /\ 100 * d * d > v

\* variant of the local-maximum test over the last 3 entries
IsLocalMaximumOfThree(onset_strength, onset_buffer) ==
    LET w == LastN(onset_buffer, 3)
    IN  /\ \A i \in 1..Len(w) : w[i] <= onset_strength
        /\ \E i \in 1..Len(w) : w[i] = onset_strength

\* onset_strength == np.max(self.onset_buffer[-5:])
IsLocalMaximum(onset_strength, onset_buffer) ==
    LET w == LastN(onset_buffer, 5)
    IN  /\ \A i \in 1..Len(w) : w[i] <= onset_strength
        /\ \E i \in 1..Len(w) : w[i] = onset_strength

\* np.diff
Diff(s) == [i \in 1..(Len(s) - 1) |-> s[i + 1] - s[i]]

\* the k-th smallest entry of s
KthSmallest(s, k) ==
    CHOOSE x \in {s[i] : i \in 1..Len(s)} :
        /\ Cardinality({i \in 1..Len(s) : s[i] < x}) < k
        /\ Cardinality({i \in 1..Len(s) : s[i] <= x}) >= k

\* twice np.median(s)
TwiceMedian(s) ==
    IF Len(s) % 2 = 1
    THEN 2 * KthSmallest(s, (Len(s) + 1) \div 2)
    ELSE KthSmallest(s, Len(s) \div 2) + KthSmallest(s, Len(s) \div 2 + 1)

\* intervals[np.abs(intervals - median) < median * 0.5]
ValidIntervals(intervals) ==
    SelectSeq(intervals,
              LAMBDA iv : 2 * Abs(2 * iv - TwiceMedian(intervals)) < TwiceMedian(intervals))

\* variant of update_tempo that smooths towards any new tempo
UpdateTempoAnyTempo(b) ==
    IF Len(b.beat_times) < 2 THEN b
    ELSE LET valid == ValidIntervals(Diff(LastN(b.beat_times, 10)))
         IN  IF Len(valid) = 0 \/ SumSeq(valid) <= 0 THEN b
             ELSE LET new_tempo == (60000000 * Len(valid)) \div SumSeq(valid)
                      tempo == (8 * b.current_tempo + 2 * new_tempo) \div 10
                  IN  [b EXCEPT !.current_tempo = tempo,
                                !.tempo_history = LastN(Append(@, tempo), 50)]

\* variant of update_tempo that averages all intervals, outliers included
UpdateTempoAllIntervals(b) ==
    IF Len(b.beat_times) < 2 THEN b
    ELSE LET valid == Diff(LastN(b.beat_times, 10))
         IN  IF Len(valid) = 0 \/ SumSeq(valid) <= 0 THEN b
             ELSE IF /\ MIN_BPM * SumSeq(valid) <= 60000 * Len(valid)
                     /\ 60000 * Len(valid) <= MAX_BPM * SumSeq(valid)
                  THEN LET new_tempo == (60000000 * Len(valid)) \div SumSeq(valid)
                           tempo == (8 * b.current_tempo + 2 * new_tempo) \div 10
                       IN  [b EXCEPT !.current_tempo = tempo,
                                     !.tempo_history = LastN(Append(@, tempo), 50)]
                  ELSE b

\* variant of update_tempo that clamps the smoothed tempo instead of skipping
UpdateTempoClamped(b) ==
    IF Len(b.beat_times) < 2 THEN b
    ELSE LET valid == ValidIntervals(Diff(LastN(b.beat_times, 10)))
         IN  IF Len(valid) = 0 \/ SumSeq(valid) <= 0 THEN b
             ELSE LET new_tempo == (60000000 * Len(valid)) \div SumSeq(valid)
                      smoothed == (8 * b.current_tempo + 2 * new_tempo) \div 10
                      tempo == Max2(MIN_BPM * 1000, Min2(smoothed, MAX_BPM * 1000))
                  IN  [b EXCEPT !.current_tempo = tempo,
                                !.tempo_history = LastN(Append(@, tempo), 50)]

\* update_tempo
UpdateTempo(b) ==
    IF Len(b.beat_times) < 2 THEN b
    ELSE LET valid == ValidIntervals(Diff(LastN(b.beat_times, 10)))
         IN  IF Len(valid) = 0 \/ SumSeq(valid) <= 0 THEN b
             ELSE IF /\ MIN_BPM * SumSeq(valid) <= 60000 * Len(valid)
                     /\ 60000 * Len(valid) <= MAX_BPM * SumSeq(valid)
                  THEN LET new_tempo == (60000000 * Len(valid)) \div SumSeq(valid)
                           tempo == (8 * b.current_tempo + 2 * new_tempo) \div 10
                       IN  [b EXCEPT !.current_tempo = tempo,
                                     !.tempo_history = LastN(Append(@, tempo), 50)]
                  ELSE b

\* variant of detect_beats without the minimum-interval test
DetectBeatsAnyInterval(b, onset_strength, current_time) ==
    LET rolled == [b EXCEPT !.onset_buffer =
                       WriteTail(Roll(@, 1), <<onset_strength>>)]
    IN  IF /\ AboveAdaptiveThreshold(onset_strength, rolled.onset_buffer)
           /\ onset_strength > BEAT_THRESHOLD
           /\ IsLocalMaximum(onset_strength, rolled.onset_buffer)
        THEN UpdateTempo(
                 [rolled EXCEPT
                     !.last_beat_time = current_time,
                     !.beat_times =
                         SelectSeq(Append(@, current_time),
                                   LAMBDA t : current_time - t < 10000)])
        ELSE rolled

\* detect_beats(onset_strength, current_time)
DetectBeats(b, onset_strength, current_time) ==
    LET rolled == [b EXCEPT !.onset_buffer =
                       WriteTail(Roll(@, 1), <<onset_strength>>)]
    IN  IF /\ AboveAdaptiveThreshold(onset_strength, rolled.onset_buffer)
           /\ onset_strength > BEAT_THRESHOLD
           /\ MAX_BPM * (current_time - b.last_beat_time) > 60000
           /\ IsLocalMaximum(onset_strength, rolled.onset_buffer)
        THEN UpdateTempo(
                 [rolled EXCEPT
                     !.last_beat_time = current_time,
                     !.beat_times =
                         SelectSeq(Append(@, current_time),
                                   LAMBDA t : current_time - t < 10000)])
        ELSE rolled

-----------------------------------------------------------------------------
(* AudioEffectsProcessor: the callbacks *)

\* variant of input_callback on a queue built without maxsize: put always succeeds
input_callback_unbounded(audio_data) ==
    /\ prog = "effects"
    /\ nextId' = nextId + 1
    /\ input_queue' = QPut(input_queue, [id |-> nextId + 1, data |-> audio_data])
    /\ cb' = [cb EXCEPT !.in_ret = "paContinue"]
    /\ UNCHANGED <<prog, engine, params, output_queue, input_buffer, output_buffer,
                   echo_buffer, audio_queue, proc, beat, rec, hist, keys, seen>>

\* variant of input_callback with put(block=True): waits for a free slot
input_callback_blocking(audio_data) ==
    /\ prog = "effects"
    /\ ~QFull(input_queue, QUEUE_MAXSIZE)
    /\ nextId' = nextId + 1
    /\ input_queue' = QPut(input_queue, [id |-> nextId + 1, data |-> audio_data])
    /\ cb' = [cb EXCEPT !.in_ret = "paContinue"]
    /\ UNCHANGED <<prog, engine, params, output_queue, input_buffer, output_buffer,
                   echo_buffer, audio_queue, proc, beat, rec, hist, keys, seen>>

\* variant of input_callback that makes room by removing the oldest frame
input_callback_drop_oldest(audio_data) ==
    /\ prog = "effects"
    /\ nextId' = nextId + 1
    /\ IF QFull(input_queue, QUEUE_MAXSIZE)
       THEN /\ input_queue' = QPut(QGetRest(input_queue),
                                   [id |-> nextId + 1, data |-> audio_data])
            /\ hist' = [hist EXCEPT !.evicted = Append(@, QGetItem(input_queue).id)]
       ELSE /\ input_queue' = QPut(input_queue, [id |-> nextId + 1, data |-> audio_data])
            /\ hist' = hist
    /\ cb' = [cb EXCEPT !.in_ret = "paContinue"]
    /\ UNCHANGED <<prog, engine, params, output_queue, input_buffer, output_buffer,
                   echo_buffer, audio_queue, proc, beat, rec, keys, seen>>

\* input_callback(in_data, ...): put(block=False), queue.Full swallowed
input_callback(audio_data) ==
    /\ prog = "effects"
    /\ nextId' = nextId + 1
    /\ IF QFull(input_queue, QUEUE_MAXSIZE)
       THEN /\ input_queue' = input_queue
            /\ hist' = [hist EXCEPT !.dropped = Append(@, nextId + 1)]
       ELSE /\ input_queue' = QPut(input_queue, [id |-> nextId + 1, data |-> audio_data])
            /\ hist' = hist
    /\ cb' = [cb EXCEPT !.in_ret = "paContinue"]
    /\ UNCHANGED <<prog, engine, params, output_queue, input_buffer, output_buffer,
                   echo_buffer, audio_queue, proc, beat, rec, keys, seen>>

\* variant of output_callback that answers an empty queue with an empty buffer
output_callback_empty_bytes(frame_count) ==
    /\ prog = "effects"
    /\ IF QEmpty(output_queue)
       THEN /\ cb' = [cb EXCEPT !.out_ret =
                        [data |-> <<>>, status |-> "paContinue",
                         frame_count |-> frame_count, underrun |-> TRUE]]
            /\ UNCHANGED <<output_queue, hist>>
       ELSE /\ cb' = [cb EXCEPT !.out_ret =
                        [data |-> QGetItem(output_queue).data, status |-> "paContinue",
                         frame_count |-> frame_count, underrun |-> FALSE]]
            /\ output_queue' = QGetRest(output_queue)
            /\ hist' = [hist EXCEPT !.played = Append(@, QGetItem(output_queue).id)]
    /\ UNCHANGED <<prog, engine, params, input_queue, input_buffer, output_buffer,
                   echo_buffer, audio_queue, proc, beat, rec, nextId, keys, seen>>

\* output_callback(in_data, frame_count, ...): get_nowait, silence on queue.Empty
output_callback(frame_count) ==
    /\ prog = "effects"
    /\ IF QEmpty(output_queue)
       THEN /\ cb' = [cb EXCEPT !.out_ret =
                        [data |-> Zeros(frame_count), status |-> "paContinue",
                         frame_count |-> frame_count, underrun |-> TRUE]]
            /\ UNCHANGED <<output_queue, hist>>
       ELSE /\ cb' = [cb EXCEPT !.out_ret =
                        [data |-> QGetItem(output_queue).data, status |-> "paContinue",
                         frame_count |-> frame_count, underrun |-> FALSE]]
            /\ output_queue' = QGetRest(output_queue)
            /\ hist' = [hist EXCEPT !.played = Append(@, QGetItem(output_queue).id)]
    /\ UNCHANGED <<prog, engine, params, input_queue, input_buffer, output_buffer,
                   echo_buffer, audio_queue, proc, beat, rec, nextId, keys, seen>>

\* on_key_press(event) on the GUI thread
on_key_press(key) ==
    /\ prog = "effects"
    /\ params' = OnKeyPress(params, key)
    /\ UNCHANGED <<prog, engine, input_queue, output_queue, input_buffer, output_buffer,
                   echo_buffer, audio_queue, proc, cb, beat, rec, nextId, hist>>

-----------------------------------------------------------------------------
(* AudioEffectsProcessor.process_audio, one step per queue operation, per   *)
(* rolling-buffer statement and per read of an effect attribute             *)

FxAt(pc) == prog = "effects" /\ proc.pc = pc

Goto(pc) == [proc EXCEPT !.pc = pc]

\* the attribute value is read into the frame's working set
ReadParam(p, field, pc) ==
    [p EXCEPT !.used[field] = params[field], !.read = @ \cup {field}, !.pc = pc]

onlyProc ==
    <<prog, engine, params, input_queue, output_queue, input_buffer, output_buffer,
      echo_buffer, audio_queue, cb, beat, rec, nextId, hist, keys, seen>>

\* variant of the loop head that sleeps before it looks at the queue
FxCheckSleepFirst ==
    /\ FxAt("check")
    /\ proc' = Goto("sleep")
    /\ UNCHANGED onlyProc

\* if not self.input_queue.empty(): ... else: time.sleep(0.001)
FxCheck ==
    /\ FxAt("check")
    /\ proc' = Goto(IF QEmpty(input_queue) THEN "sleep" ELSE "get")
    /\ UNCHANGED onlyProc

FxSleep ==
    /\ FxAt("sleep")
    /\ proc' = Goto("check")
    /\ UNCHANGED onlyProc

\* variant of the dequeue step that takes the newest queued frame first
FxGetNewest ==
    /\ FxAt("get")
    /\ IF QEmpty(input_queue)
       THEN /\ proc' = Goto("check")
            /\ UNCHANGED <<input_queue, hist>>
       ELSE /\ proc' = [proc EXCEPT !.pc = "roll_in",
                                    !.audio_chunk = input_queue[Len(input_queue)],
                                    !.processed = <<>>,
                                    !.used = InitParams, !.read = {},
                                    !.echo_before = echo_buffer]
            /\ input_queue' = SubSeq(input_queue, 1, Len(input_queue) - 1)
            /\ hist' = [hist EXCEPT !.dequeued =
                                      Append(@, input_queue[Len(input_queue)].id)]
    /\ UNCHANGED <<prog, engine, params, output_queue, input_buffer, output_buffer,
                   echo_buffer, audio_queue, cb, beat, rec, nextId, keys, seen>>

\* audio_chunk = self.input_queue.get_nowait(); queue.Empty ends the iteration
FxGet ==
    /\ FxAt("get")
    /\ IF QEmpty(input_queue)
       THEN /\ proc' = Goto("check")
            /\ UNCHANGED <<input_queue, hist>>
       ELSE /\ proc' = [proc EXCEPT !.pc = "roll_in",
                                    !.audio_chunk = QGetItem(input_queue),
                                    !.processed = <<>>,
                                    !.used = InitParams, !.read = {},
                                    !.echo_before = echo_buffer]
            /\ input_queue' = QGetRest(input_queue)
            /\ hist' = [hist EXCEPT !.dequeued = Append(@, QGetItem(input_queue).id)]
    /\ UNCHANGED <<prog, engine, params, output_queue, input_buffer, output_buffer,
                   echo_buffer, audio_queue, cb, beat, rec, nextId, keys, seen>>

\* self.input_buffer = np.roll(self.input_buffer, -len(audio_chunk))
FxRollIn ==
    /\ FxAt("roll_in")
    /\ input_buffer' = Roll(input_buffer, Len(proc.audio_chunk.data))
    /\ proc' = Goto("write_in")
    /\ UNCHANGED <<prog, engine, params, input_queue, output_queue, output_buffer,
                   echo_buffer, audio_queue, cb, beat, rec, nextId, hist, keys, seen>>

\* self.input_buffer[-len(audio_chunk):] = audio_chunk; processed = audio_chunk.copy()
FxWriteIn ==
    /\ FxAt("write_in")
    /\ input_buffer' = WriteTail(input_buffer, proc.audio_chunk.data)
    /\ proc' = [proc EXCEPT !.pc = "filter", !.processed = proc.audio_chunk.data]
    /\ UNCHANGED <<prog, engine, params, input_queue, output_queue, output_buffer,
                   echo_buffer, audio_queue, cb, beat, rec, nextId, hist, keys, seen>>

\* apply_filter: if not self.filter_enabled: return audio_chunk
FxFilterEnabled ==
    /\ FxAt("filter")
    /\ proc' = ReadParam(proc, "filter_enabled",
                         IF params.filter_enabled THEN "filter_cutoff" ELSE "distortion")
    /\ UNCHANGED onlyProc

\* normalized_cutoff = self.filter_cutoff / nyquist
FxFilterCutoff ==
    /\ FxAt("filter_cutoff")
    /\ proc' = ReadParam(proc, "filter_cutoff", "filter_type")
    /\ UNCHANGED onlyProc

\* if self.filter_type == 'low': butter(low) and filtfilt; otherwise test again
FxFilterTypeLow ==
    /\ FxAt("filter_type")
    /\ proc' = IF params.filter_type = "low"
               THEN [ReadParam(proc, "filter_type", "distortion") EXCEPT
                        !.processed = Filter(proc.processed, proc.used.filter_cutoff, "low")]
               ELSE Goto("filter_type_high")
    /\ UNCHANGED onlyProc

\* elif self.filter_type == 'high': butter(high) else: butter(band); filtfilt
FxFilterTypeHigh ==
    /\ FxAt("filter_type_high")
    /\ proc' = LET btype == IF params.filter_type = "high" THEN "high" ELSE "band"
               IN  [proc EXCEPT !.pc = "distortion",
                                !.used.filter_type = btype,
                                !.read = @ \cup {"filter_type"},
                                !.processed = Filter(proc.processed,
                                                     proc.used.filter_cutoff, btype)]
    /\ UNCHANGED onlyProc

\* variant of the distortion stage without the early return on the flag
FxDistortionAlways ==
    /\ FxAt("distortion")
    /\ proc' = ReadParam(proc, "distortion_enabled", "distortion_gain")
    /\ UNCHANGED onlyProc

\* apply_distortion: if not self.distortion_enabled: return audio_chunk
FxDistortionEnabled ==
    /\ FxAt("distortion")
    /\ proc' = ReadParam(proc, "distortion_enabled",
                         IF params.distortion_enabled THEN "distortion_gain" ELSE "reverb")
    /\ UNCHANGED onlyProc

\* variant of the distortion stage that clips the frame twice
FxDistortionGainTwice ==
    /\ FxAt("distortion_gain")
    /\ proc' = [ReadParam(proc, "distortion_gain", "reverb") EXCEPT
                   !.processed = Distort(Distort(proc.processed, params.distortion_gain),
                                         params.distortion_gain)]
    /\ UNCHANGED onlyProc

\* amplified = audio_chunk * self.distortion_gain; np.tanh; * 0.5
FxDistortionGain ==
    /\ FxAt("distortion_gain")
    /\ proc' = [ReadParam(proc, "distortion_gain", "reverb") EXCEPT
                   !.processed = Distort(proc.processed, params.distortion_gain)]
    /\ UNCHANGED onlyProc

\* apply_reverb: if not self.reverb_enabled: return audio_chunk
FxReverbEnabled ==
    /\ FxAt("reverb")
    /\ proc' = ReadParam(proc, "reverb_enabled",
                         IF params.reverb_enabled THEN "reverb_loop" ELSE "echo")
    /\ UNCHANGED onlyProc

\* the loop of apply_reverb; self.reverb_decay is read only where i >= delay_samples
FxReverbLoop ==
    /\ FxAt("reverb_loop")
    /\ proc' = [(IF Len(proc.processed) - 1 >= ReverbDelaySamples
                 THEN ReadParam(proc, "reverb_decay", "echo")
                 ELSE Goto("echo")) EXCEPT
                   !.processed = Reverb(proc.processed, params.reverb_decay)]
    /\ UNCHANGED onlyProc

\* variant of apply_echo that runs its loop whatever the flag holds
FxEchoAlways ==
    /\ FxAt("echo")
    /\ proc' = ReadParam(proc, "echo_enabled", "echo_delay")
    /\ UNCHANGED onlyProc

\* apply_echo: if not self.echo_enabled: return audio_chunk
FxEchoEnabled ==
    /\ FxAt("echo")
    /\ proc' = ReadParam(proc, "echo_enabled",
                         IF params.echo_enabled THEN "echo_delay" ELSE "roll_out")
    /\ UNCHANGED onlyProc

\* delay_samples = int(self.echo_delay * self.RATE)
FxEchoDelay ==
    /\ FxAt("echo_delay")
    /\ proc' = ReadParam(proc, "echo_delay", "echo_loop")
    /\ UNCHANGED onlyProc

\* the loop of apply_echo and the update of the delay line
FxEchoLoop ==
    /\ FxAt("echo_loop")
    /\ LET output == EchoOutput(proc.processed, echo_buffer,
                                EchoDelaySamples(proc.used.echo_delay),
                                params.echo_feedback)
       IN  /\ proc' = [ReadParam(proc, "echo_feedback", "roll_out") EXCEPT
                          !.processed = output]
           /\ echo_buffer' = EchoBufferAfter(echo_buffer, output)
    /\ UNCHANGED <<prog, engine, params, input_queue, output_queue, input_buffer,
                   output_buffer, audio_queue, cb, beat, rec, nextId, hist, keys, seen>>

\* self.output_buffer = np.roll(self.output_buffer, -len(processed))
FxRollOut ==
    /\ FxAt("roll_out")
    /\ output_buffer' = Roll(output_buffer, Len(proc.processed))
    /\ proc' = Goto("write_out")
    /\ UNCHANGED <<prog, engine, params, input_queue, output_queue, input_buffer,
                   echo_buffer, audio_queue, cb, beat, rec, nextId, hist, keys, seen>>

\* self.output_buffer[-len(processed):] = processed
FxWriteOut ==
    /\ FxAt("write_out")
    /\ output_buffer' = WriteTail(output_buffer, proc.processed)
    /\ proc' = Goto("put")
    /\ UNCHANGED <<prog, engine, params, input_queue, output_queue, input_buffer,
                   echo_buffer, audio_queue, cb, beat, rec, nextId, hist, keys, seen>>

\* self.output_queue.put(processed, block=False); queue.Full swallowed
FxPut ==
    /\ FxAt("put")
    /\ IF QFull(output_queue, QUEUE_MAXSIZE)
       THEN /\ output_queue' = output_queue
            /\ hist' = [hist EXCEPT !.produced = Append(@, proc.audio_chunk.id),
                                    !.out_dropped = Append(@, proc.audio_chunk.id)]
       ELSE /\ output_queue' =
                 QPut(output_queue, [id |-> proc.audio_chunk.id, data |-> proc.processed])
            /\ hist' = [hist EXCEPT !.produced = Append(@, proc.audio_chunk.id)]
    /\ proc' = Goto("check")
    /\ UNCHANGED <<prog, engine, params, input_queue, input_buffer, output_buffer,
                   echo_buffer, audio_queue, cb, beat, rec, nextId, keys, seen>>

\* the steps process_audio takes whatever the attributes hold
FxPipeline ==
    \/ FxCheck \/ FxSleep \/ FxGet \/ FxRollIn \/ FxWriteIn
    \/ FxFilterEnabled \/ FxDistortionEnabled \/ FxReverbEnabled \/ FxEchoEnabled
    \/ FxRollOut \/ FxWriteOut \/ FxPut

\* the steps inside an enabled stage
FxStages ==
    \/ FxFilterCutoff \/ FxFilterTypeLow \/ FxFilterTypeHigh
    \/ FxDistortionGain \/ FxReverbLoop \/ FxEchoDelay \/ FxEchoLoop

FxProcess == FxPipeline \/ FxStages

-----------------------------------------------------------------------------
(* AudioEffectsProcessor: run() and cleanup() on the main thread *)

\* what a step of the main thread leaves alone
onlyEngine ==
    <<prog, params, input_queue, output_queue, input_buffer, output_buffer,
      echo_buffer, audio_queue, proc, cb, beat, rec, nextId, hist, keys, seen>>

EngineAt(pc) == engine.pc = pc

\* the statement of cleanup after the input stream's: the effects
\* processor has an output stream to look at, the other two scripts do not
AfterInput == IF prog = "effects" THEN "stop_output" ELSE "terminate"

\* plt.show() returns (the window is closed, or 'q'): finally: self.cleanup()
CloseWindow ==
    /\ EngineAt("show")
    /\ engine' = [engine EXCEPT !.pc = "stop_input"]
    /\ UNCHANGED onlyEngine

\* except KeyboardInterrupt: print("Stopped by user"); finally: self.cleanup()
Interrupt ==
    /\ EngineAt("show")
    /\ engine' = [engine EXCEPT !.pc = "stop_input", !.interrupted = TRUE]
    /\ UNCHANGED onlyEngine

\* if hasattr(self, 'input_stream'): self.input_stream.stop_stream()
\* (if hasattr(self, 'stream') and self.stream: in the other two scripts)
CleanupStopInput ==
    /\ EngineAt("stop_input")
    /\ engine' = IF engine.input_stream = "absent"
                 THEN [engine EXCEPT !.pc = AfterInput]
                 ELSE [engine EXCEPT !.pc = "close_input", !.input_stream = "stopped"]
    /\ UNCHANGED onlyEngine

\* self.input_stream.close()
CleanupCloseInput ==
    /\ EngineAt("close_input")
    /\ engine' = [engine EXCEPT !.pc = AfterInput, !.input_stream = "closed"]
    /\ UNCHANGED onlyEngine

\* if hasattr(self, 'output_stream'): self.output_stream.stop_stream()
CleanupStopOutput ==
    /\ EngineAt("stop_output")
    /\ engine' = IF engine.output_stream = "absent"
                 THEN [engine EXCEPT !.pc = "terminate"]
                 ELSE [engine EXCEPT !.pc = "close_output", !.output_stream = "stopped"]
    /\ UNCHANGED onlyEngine

\* self.output_stream.close()
CleanupCloseOutput ==
    /\ EngineAt("close_output")
    /\ engine' = [engine EXCEPT !.pc = "terminate", !.output_stream = "closed"]
    /\ UNCHANGED onlyEngine

\* self.p.terminate(); plt.close('all'); cleanup and run return.  A stream
\* still open goes down with the handle.
CleanupTerminate ==
    /\ EngineAt("terminate")
    /\ engine' = [engine EXCEPT !.pc = "returned", !.p = "terminated",
                                !.leaked = IF @ = "active" THEN "terminated" ELSE @]
    /\ UNCHANGED onlyEngine

\* cleanup(), statement by statement
Cleanup ==
    \/ CleanupStopInput \/ CleanupCloseInput
    \/ CleanupStopOutput \/ CleanupCloseOutput
    \/ CleanupTerminate

-----------------------------------------------------------------------------
(* BeatDetector: the capture callback and process_audio *)

\* time.time() read by a capture callback: the clock has advanced by dt
ClockSteps == {0, 1}

\* audio_callback: put((audio_data, time.time()), block=False), queue.Full swallowed
beat_audio_callback(audio_data, dt) ==
    /\ prog = "beat"
    /\ nextId' = nextId + 1
    /\ IF QFull(audio_queue, QUEUE_MAXSIZE)
       THEN /\ audio_queue' = audio_queue
            /\ hist' = [hist EXCEPT !.dropped = Append(@, nextId + 1)]
       ELSE /\ audio_queue' = QPut(audio_queue, [id |-> nextId + 1, data |-> audio_data,
                                                 timestamp |-> cb.now + dt])
            /\ hist' = hist
    /\ cb' = [cb EXCEPT !.in_ret = "paContinue", !.now = @ + dt]
    /\ UNCHANGED <<prog, engine, params, input_queue, output_queue, input_buffer,
                   output_buffer, echo_buffer, proc, beat, rec, keys, seen>>

BeatAt(pc) == prog = "beat" /\ proc.pc = pc

BeatCheck ==
    /\ BeatAt("check")
    /\ proc' = Goto(IF QEmpty(audio_queue) THEN "sleep" ELSE "get")
    /\ UNCHANGED onlyProc

BeatSleep ==
    /\ BeatAt("sleep")
    /\ proc' = Goto("check")
    /\ UNCHANGED onlyProc

\* audio_chunk, timestamp = self.audio_queue.get_nowait()
BeatGet ==
    /\ BeatAt("get")
    /\ IF QEmpty(audio_queue)
       THEN /\ proc' = Goto("check")
            /\ UNCHANGED <<audio_queue, hist>>
       ELSE /\ proc' = [proc EXCEPT !.pc = "roll_audio",
                                    !.audio_chunk = QGetItem(audio_queue)]
            /\ audio_queue' = QGetRest(audio_queue)
            /\ hist' = [hist EXCEPT !.dequeued = Append(@, QGetItem(audio_queue).id)]
    /\ UNCHANGED <<prog, engine, params, input_queue, output_queue, input_buffer,
                   output_buffer, echo_buffer, cb, beat, rec, nextId, keys, seen>>

\* self.audio_buffer = np.roll(self.audio_buffer, -len(audio_chunk))
BeatRollAudio ==
    /\ BeatAt("roll_audio")
    /\ beat' = [beat EXCEPT !.audio_buffer = Roll(@, Len(proc.audio_chunk.data))]
    /\ proc' = Goto("write_audio")
    /\ UNCHANGED <<prog, engine, params, input_queue, output_queue, input_buffer,
                   output_buffer, echo_buffer, audio_queue, cb, rec, nextId, hist,
                   keys, seen>>

\* self.audio_buffer[-len(audio_chunk):] = audio_chunk
BeatWriteAudio ==
    /\ BeatAt("write_audio")
    /\ beat' = [beat EXCEPT !.audio_buffer = WriteTail(@, proc.audio_chunk.data)]
    /\ proc' = Goto("detect")
    /\ UNCHANGED <<prog, engine, params, input_queue, output_queue, input_buffer,
                   output_buffer, echo_buffer, audio_queue, cb, rec, nextId, hist,
                   keys, seen>>

\* onset_strength = self.compute_onset_strength(audio_chunk)
\* self.detect_beats(onset_strength, timestamp)
BeatDetect ==
    /\ BeatAt("detect")
    /\ beat' = DetectBeats(beat, ComputeOnsetStrength(proc.audio_chunk.data),
                           proc.audio_chunk.timestamp)
    /\ proc' = Goto("check")
    /\ UNCHANGED <<prog, engine, params, input_queue, output_queue, input_buffer,
                   output_buffer, echo_buffer, audio_queue, cb, rec, nextId, hist,
                   keys, seen>>

BeatProcess ==
    \/ BeatCheck \/ BeatSleep \/ BeatGet \/ BeatRollAudio \/ BeatWriteAudio
    \/ BeatDetect

-----------------------------------------------------------------------------
(* AdvancedAudioRecorder.  Samples are 16-bit integers.  Session dicts are  *)
(* objects: rec.heap holds them, current_session and recording_sessions     *)
(* hold references (indexes into the heap, 0 for None).                     *)

InitRec(channels) ==
    [CHANNELS |-> channels, is_recording |-> FALSE, is_paused |-> FALSE,
     current_recording |-> <<>>, recording_start_time |-> NONE,
     heap |-> <<>>, current_session |-> 0, recording_sessions |-> <<>>,
     left_buffer |-> Zeros(BUFFER_SIZE), right_buffer |-> Zeros(BUFFER_SIZE),
     \* ghost: the frames that passed the recording test since start_recording
     taken |-> <<>>]

\* frames the capture device can deliver to the recorder: CHUNK frames of
\* CHANNELS interleaved 16-bit samples
RecInputFrames(channels) ==
    {Zeros(CHUNK * channels),
     [i \in 1..(CHUNK * channels) |-> IF i = 1 THEN -32768 ELSE 1000 * i]}

\* np.abs on an int16 array: the absolute value wraps at -32768
AbsInt16(x) == IF x = -32768 THEN -32768 ELSE Abs(x)

\* np.max(np.abs(samples))
PeakOf(samples) ==
    CHOOSE m \in {AbsInt16(samples[i]) : i \in 1..Len(samples)} :
        \A i \in 1..Len(samples) : AbsInt16(samples[i]) <= m

\* samples[0::2] and samples[1::2]
LeftSamples(samples) == [i \in 1..(Len(samples) \div 2) |-> samples[2 * i - 1]]

RightSamples(samples) == [i \in 1..(Len(samples) \div 2) |-> samples[2 * i]]

\* audio_callback, first statement: put((in_data, time.time()), block=False)
rec_audio_callback(in_data, dt) ==
    /\ prog = "recorder"
    /\ cb.pc = "idle"
    /\ nextId' = nextId + 1
    /\ LET item == [id |-> nextId + 1, data |-> in_data, timestamp |-> cb.now + dt]
       IN  IF QFull(audio_queue, REC_QUEUE_MAXSIZE)
           THEN /\ cb' = [cb EXCEPT !.pc = "evict", !.item = item, !.now = @ + dt]
                /\ UNCHANGED audio_queue
           ELSE /\ cb' = [cb EXCEPT !.in_ret = "paContinue", !.now = @ + dt]
                /\ audio_queue' = QPut(audio_queue, item)
    /\ UNCHANGED <<prog, engine, params, input_queue, output_queue, input_buffer,
                   output_buffer, echo_buffer, proc, beat, rec, hist, keys, seen>>

\* variant of the eviction step without the inner except queue.Empty
rec_audio_callback_evict_uncaught ==
    /\ prog = "recorder"
    /\ cb.pc = "evict"
    /\ IF QEmpty(audio_queue)
       THEN /\ cb' = [cb EXCEPT !.pc = "idle", !.item = NONE, !.escaped = "Empty"]
            /\ hist' = [hist EXCEPT !.dropped = Append(@, cb.item.id)]
            /\ UNCHANGED audio_queue
       ELSE /\ cb' = [cb EXCEPT !.pc = "retry"]
            /\ hist' = [hist EXCEPT !.evicted = Append(@, QGetItem(audio_queue).id)]
            /\ audio_queue' = QGetRest(audio_queue)
    /\ UNCHANGED <<prog, engine, params, input_queue, output_queue, input_buffer,
                   output_buffer, echo_buffer, proc, beat, rec, nextId, keys, seen>>

\* except queue.Full: self.audio_queue.get_nowait(); queue.Empty swallowed
rec_audio_callback_evict ==
    /\ prog = "recorder"
    /\ cb.pc = "evict"
    /\ IF QEmpty(audio_queue)
       THEN /\ cb' = [cb EXCEPT !.pc = "idle", !.item = NONE, !.in_ret = "paContinue"]
            /\ hist' = [hist EXCEPT !.dropped = Append(@, cb.item.id)]
            /\ UNCHANGED audio_queue
       ELSE /\ cb' = [cb EXCEPT !.pc = "retry"]
            /\ hist' = [hist EXCEPT !.evicted = Append(@, QGetItem(audio_queue).id)]
            /\ audio_queue' = QGetRest(audio_queue)
    /\ UNCHANGED <<prog, engine, params, input_queue, output_queue, input_buffer,
                   output_buffer, echo_buffer, proc, beat, rec, nextId, keys, seen>>

\* self.audio_queue.put((in_data, time.time()), block=False) inside the
\* handler: only queue.Empty is caught there, queue.Full would leave the callback
rec_audio_callback_retry ==
    /\ prog = "recorder"
    /\ cb.pc = "retry"
    /\ IF QFull(audio_queue, REC_QUEUE_MAXSIZE)
       THEN /\ cb' = [cb EXCEPT !.pc = "idle", !.item = NONE, !.escaped = "Full"]
            /\ UNCHANGED audio_queue
       ELSE /\ cb' = [cb EXCEPT !.pc = "idle", !.item = NONE, !.in_ret = "paContinue"]
            /\ audio_queue' = QPut(audio_queue, cb.item)
    /\ UNCHANGED <<prog, engine, params, input_queue, output_queue, input_buffer,
                   output_buffer, echo_buffer, proc, beat, rec, nextId, hist, keys, seen>>

-----------------------------------------------------------------------------
(* AdvancedAudioRecorder: the control handlers (GUI thread) *)

\* start_recording
StartRecording(r, now) ==
    [r EXCEPT !.is_recording = TRUE, !.is_paused = FALSE,
              !.recording_start_time = now, !.current_recording = <<>>,
              !.taken = <<>>,
              !.heap = Append(@, [start_time |-> now, duration |-> 0,
                                  frames |-> <<>>, peak_level |-> 0]),
              !.current_session = Len(r.heap) + 1]

\* stop_recording
StopRecording(r, now) ==
    IF ~r.is_recording THEN r
    ELSE IF r.current_session = 0
         THEN [r EXCEPT !.is_recording = FALSE, !.is_paused = FALSE]
         ELSE [r EXCEPT !.is_recording = FALSE, !.is_paused = FALSE,
                        !.heap[r.current_session].duration =
                            now - r.heap[r.current_session].start_time,
                        !.heap[r.current_session].frames = r.current_recording,
                        !.recording_sessions = Append(@, r.current_session)]

\* toggle_recording
ToggleRecording(r, now) ==
    IF ~r.is_recording THEN StartRecording(r, now) ELSE StopRecording(r, now)

\* variant of toggle_pause without the test of is_recording
TogglePauseAlways(r) == [r EXCEPT !.is_paused = ~@]

\* toggle_pause
TogglePause(r) ==
    IF r.is_recording THEN [r EXCEPT !.is_paused = ~@] ELSE r

\* clear_recordings
ClearRecordings(r) ==
    [r EXCEPT !.recording_sessions = <<>>, !.current_recording = <<>>]

RecKeys == {"r", "p", "s", "c"}

\* on_key_press of the recorder ('w' and 'space' go to persistence and playback)
rec_on_key_press(key) ==
    /\ prog = "recorder"
    /\ rec' = CASE key = "r" -> ToggleRecording(rec, cb.now)
                [] key = "p" -> TogglePause(rec)
                [] key = "s" -> StopRecording(rec, cb.now)
                [] key = "c" -> ClearRecordings(rec)
                [] OTHER -> rec
    /\ UNCHANGED <<prog, engine, params, input_queue, output_queue, input_buffer,
                   output_buffer, echo_buffer, audio_queue, proc, cb, beat,
                   nextId, hist>>

-----------------------------------------------------------------------------
(* AdvancedAudioRecorder.process_audio *)

RecAt(pc) == prog = "recorder" /\ proc.pc = pc

onlyProcRec ==
    <<prog, engine, params, input_queue, output_queue, input_buffer, output_buffer,
      echo_buffer, audio_queue, cb, beat, nextId, hist, keys, seen>>

RecCheck ==
    /\ RecAt("check")
    /\ proc' = Goto(IF QEmpty(audio_queue) THEN "sleep" ELSE "get")
    /\ UNCHANGED onlyProc

RecSleep ==
    /\ RecAt("sleep")
    /\ proc' = Goto("check")
    /\ UNCHANGED onlyProc

\* audio_data, timestamp = self.audio_queue.get_nowait()
RecGet ==
    /\ RecAt("get")
    /\ IF QEmpty(audio_queue)
       THEN /\ proc' = Goto("check")
            /\ UNCHANGED <<audio_queue, hist>>
       ELSE /\ proc' = [proc EXCEPT !.pc = "roll_left",
                                    !.audio_chunk = QGetItem(audio_queue)]
            /\ audio_queue' = QGetRest(audio_queue)
            /\ hist' = [hist EXCEPT !.dequeued = Append(@, QGetItem(audio_queue).id)]
    /\ UNCHANGED <<prog, engine, params, input_queue, output_queue, input_buffer,
                   output_buffer, echo_buffer, cb, beat, rec, nextId, keys, seen>>

\* the samples that go to the left buffer: samples[0::2] in stereo, all in mono
RecLeftPart == 
    IF rec.CHANNELS = 2 THEN LeftSamples(proc.audio_chunk.data)
    ELSE proc.audio_chunk.data

\* self.left_buffer = np.roll(self.left_buffer, -len(left_samples))
RecRollLeft ==
    /\ RecAt("roll_left")
    /\ rec' = [rec EXCEPT !.left_buffer = Roll(@, Len(RecLeftPart))]
    /\ proc' = Goto("write_left")
    /\ UNCHANGED onlyProcRec

\* self.left_buffer[-len(left_samples):] = left_samples
RecWriteLeft ==
    /\ RecAt("write_left")
    /\ rec' = [rec EXCEPT !.left_buffer = WriteTail(@, RecLeftPart)]
    /\ proc' = Goto(IF rec.CHANNELS = 2 THEN "roll_right" ELSE "test_recording")
    /\ UNCHANGED onlyProcRec

\* self.right_buffer = np.roll(self.right_buffer, -len(right_samples))
RecRollRight ==
    /\ RecAt("roll_right")
    /\ rec' = [rec EXCEPT !.right_buffer =
                  Roll(@, Len(RightSamples(proc.audio_chunk.data)))]
    /\ proc' = Goto("write_right")
    /\ UNCHANGED onlyProcRec

\* self.right_buffer[-len(right_samples):] = right_samples
RecWriteRight ==
    /\ RecAt("write_right")
    /\ rec' = [rec EXCEPT !.right_buffer =
                  WriteTail(@, RightSamples(proc.audio_chunk.data))]
    /\ proc' = Goto("test_recording")
    /\ UNCHANGED onlyProcRec

\* if self.is_recording and ...
RecTestRecording ==
    /\ RecAt("test_recording")
    /\ proc' = Goto(IF rec.is_recording THEN "test_paused" ELSE "check")
    /\ UNCHANGED onlyProc

\* ... and not self.is_paused:
RecTestPaused ==
    /\ RecAt("test_paused")
    /\ proc' = Goto(IF ~rec.is_paused THEN "append" ELSE "check")
    /\ rec' = IF ~rec.is_paused
              THEN [rec EXCEPT !.taken = Append(@, proc.audio_chunk.data)]
              ELSE rec
    /\ UNCHANGED onlyProcRec

\* self.current_recording.append(np.frombuffer(audio_data, dtype=np.int16))
RecAppend ==
    /\ RecAt("append")
    /\ rec' = [rec EXCEPT !.current_recording = Append(@, proc.audio_chunk.data)]
    /\ proc' = Goto("test_session")
    /\ UNCHANGED onlyProcRec

\* if self.current_session:
RecTestSession ==
    /\ RecAt("test_session")
    /\ proc' = Goto(IF rec.current_session # 0 THEN "peak" ELSE "check")
    /\ UNCHANGED onlyProc

\* self.current_session['peak_level'] = max(self.current_session['peak_level'], current_peak)
RecPeak ==
    /\ RecAt("peak")
    /\ rec' = [rec EXCEPT !.heap[rec.current_session].peak_level =
                  IF PeakOf(proc.audio_chunk.data) > @
                  THEN PeakOf(proc.audio_chunk.data) ELSE @]
    /\ proc' = Goto("check")
    /\ UNCHANGED onlyProcRec

\* the steps process_audio takes whatever the recording state
RecPipeline ==
    \/ RecCheck \/ RecSleep \/ RecGet \/ RecRollLeft \/ RecWriteLeft
    \/ RecRollRight \/ RecWriteRight \/ RecTestRecording

\* the steps behind "if self.is_recording"
RecRecording == RecTestPaused \/ RecAppend \/ RecTestSession \/ RecPeak

RecProcess == RecPipeline \/ RecRecording

-----------------------------------------------------------------------------
(* Specifications *)

\* only the running script's objects exist
InitObjects ==
    /\ prog \in Progs
    /\ params = IF prog = "effects" THEN InitParams ELSE NONE
    /\ input_queue = <<>>
    /\ output_queue = <<>>
    /\ input_buffer = IF prog = "effects" THEN Zeros(ROLLING_WINDOW) ELSE <<>>
    /\ output_buffer = IF prog = "effects" THEN Zeros(ROLLING_WINDOW) ELSE <<>>
    /\ echo_buffer = IF prog = "effects" THEN Zeros(ECHO_BUFFER_LEN) ELSE <<>>
    /\ audio_queue = <<>>
    /\ proc = InitProc
    /\ cb = InitCb
    /\ beat = IF prog = "beat" THEN InitBeat ELSE NONE
    \* setup_audio: stereo, or mono when no stereo input device exists
    /\ IF prog = "recorder"
       THEN \E channels \in {1, 2} : rec = InitRec(channels)
       ELSE rec = NONE
    /\ nextId = 0
    /\ hist = InitHist
    /\ keys = 0
    /\ seen = IF prog = "effects" THEN {InitParams} ELSE {}

\* the three scripts after __init__, the audio set up without an error
Init == InitObjects /\ engine = InitEngine

\* the three scripts after __init__, whatever setup_audio met
InitSetup ==
    /\ InitObjects
    /\ engine \in IF prog = "effects" THEN SetupOutcomesEffects ELSE SetupOutcomesStream

\* the effects script alone
InitEffects == Init /\ prog = "effects"

\* the recorder script alone
InitRecorder == Init /\ prog = "recorder"

\* the audio subsystem invokes a capture callback
Capture(limit) ==
    /\ nextId < limit
    /\ \/ \E audio_data \in InputFrames : input_callback(audio_data)
       \/ \E audio_data \in InputFrames, dt \in ClockSteps :
             beat_audio_callback(audio_data, dt)
       \* process_audio of the recorder never uses the timestamp: one tick per callback
       \/ /\ prog = "recorder"
          /\ \E in_data \in RecInputFrames(rec.CHANNELS) : rec_audio_callback(in_data, 1)

\* the recorder's capture callback continues
CaptureContinue == rec_audio_callback_evict \/ rec_audio_callback_retry

\* the audio subsystem invokes the playback callback
Playback == \E frame_count \in FrameCounts : output_callback(frame_count)

\* the processing thread takes a step
Process == FxProcess \/ BeatProcess \/ RecProcess

\* a key press reaches the effects processor
KeyPress ==
    /\ keys < MaxKeys
    /\ keys' = keys + 1
    /\ \E key \in Keys : on_key_press(key)
    /\ seen' = seen \cup {params'}

\* a key press reaches the recorder
RecKeyPress ==
    /\ keys < MaxKeys
    /\ keys' = keys + 1
    /\ \E key \in RecKeys : rec_on_key_press(key)
    /\ UNCHANGED seen

\* The audio path of the three scripts with the controls left alone: capture,
\* processing and playback in any interleaving.  The steps of process_audio
\* that only a key press enables belong to SpecChain and SpecRec.
Next ==
    \/ Capture(MaxFrames)
    \/ CaptureContinue
    \/ Playback
    \/ FxPipeline
    \/ BeatProcess
    \/ RecPipeline

Spec == Init /\ [][Next]_vars

\* the effects processor with key presses interleaved with the processing of frames
NextChain ==
    \/ /\ prog = "effects"
       /\ Capture(MaxChainFrames)
    \/ FxProcess
    \/ KeyPress

SpecChain == InitEffects /\ [][NextChain]_vars

\* The keys that adjust a parameter, and 'q'.  The toggles r, e, f, d flip a
\* flag no adjusting key reads.
AdjustKeys == Keys \ {"r", "e", "f", "d"}

\* the effects processor's controls alone, any number of adjusting key presses
NextKeys ==
    /\ \E key \in AdjustKeys : on_key_press(key)
    /\ UNCHANGED <<keys, seen>>

SpecKeys == InitEffects /\ [][NextKeys]_vars

\* the recorder with its controls interleaved with capture and processing
NextRec ==
    \/ /\ prog = "recorder"
       /\ Capture(MaxFrames)
    \/ CaptureContinue
    \/ RecProcess
    \/ RecKeyPress

SpecRec == InitRecorder /\ [][NextRec]_vars

\* PortAudio invokes a stream's callback only while the stream is active
ActiveCapture ==
    /\ engine.input_stream = "active"
    /\ nextId < MaxFrames
    /\ \E audio_data \in InputFrames : input_callback(audio_data)

ActivePlayback ==
    /\ engine.output_stream = "active"
    /\ Playback

\* the effects processor from the running window to the return of run():
\* the callbacks, the processing thread and the main thread interleaved
NextStop ==
    \/ ActiveCapture
    \/ ActivePlayback
    \/ FxPipeline
    \/ CloseWindow
    \/ Cleanup

\* The processing thread is scheduled again and again and cleanup(), once
\* entered, runs to its end; nothing obliges the user to close the window.
SpecStop ==
    /\ InitEffects
    /\ [][NextStop]_vars
    /\ WF_vars(FxPipeline)
    /\ WF_vars(Cleanup)

\* the effects processor or the beat detector, running
InitLive == Init /\ prog \in {"effects", "beat"}

\* the capture callback of either program delivers a frame
LiveCapture ==
    /\ nextId < MaxFrames
    /\ \/ \E audio_data \in InputFrames : input_callback(audio_data)
       \/ \E audio_data \in InputFrames, dt \in ClockSteps :
             beat_audio_callback(audio_data, dt)

NextLive ==
    \/ LiveCapture
    \/ Playback
    \/ FxPipeline
    \/ BeatProcess

\* the steps of the beat detector's loop around the call of detect_beats
BeatLoop == BeatCheck \/ BeatSleep \/ BeatGet \/ BeatRollAudio \/ BeatWriteAudio

\* The processing thread of either program is scheduled again and again;
\* nothing obliges the device to deliver or to fetch a frame.  BeatDetect is
\* enabled exactly at "detect" and leaves it, so weak fairness of that step
\* is that the loop is outside "detect" again and again.
SpecLive ==
    /\ InitLive
    /\ [][NextLive]_vars
    /\ WF_vars(FxPipeline)
    /\ WF_vars(BeatLoop)
    /\ []<>(~BeatAt("detect"))

\* the keys that reach the echo stage: its toggle and the two delay keys
EchoKeys == {"e", "3", "4"}

\* any number of presses of the echo keys
EchoKeyPress ==
    /\ \E key \in EchoKeys : on_key_press(key)
    /\ UNCHANGED <<keys, seen>>

\* the effects processor with the echo keys pressed at any time, any number
\* of times, between and during the processing of frames
NextEcho ==
    \/ /\ prog = "effects"
       /\ Capture(MaxFrames)
    \/ FxPipeline
    \/ FxEchoDelay
    \/ FxEchoLoop
    \/ EchoKeyPress

SpecEcho == InitEffects /\ [][NextEcho]_vars

\* the keys that reach the reverb stage: its toggle and the two decay keys
ReverbKeys == {"r", "1", "2"}

\* any number of presses of the reverb keys
ReverbKeyPress ==
    /\ \E key \in ReverbKeys : on_key_press(key)
    /\ UNCHANGED <<keys, seen>>

\* the effects processor with the reverb keys pressed at any time, any number
\* of times, between and during the processing of frames
NextReverb ==
    \/ /\ prog = "effects"
       /\ Capture(MaxFrames)
    \/ FxPipeline
    \/ FxReverbLoop
    \/ ReverbKeyPress

SpecReverb == InitEffects /\ [][NextReverb]_vars

\* a capture callback of any of the three scripts, on a stream that runs
StreamCapture ==
    /\ engine.input_stream = "active" \/ engine.leaked = "active"
    /\ Capture(MaxFrames) \/ CaptureContinue

\* the three scripts from the running window to the return of run(), with
\* every outcome of setup_audio and both ways out of plt.show()
NextShutdown ==
    \/ StreamCapture
    \/ ActivePlayback
    \/ FxPipeline
    \/ BeatProcess
    \/ RecPipeline
    \/ CloseWindow
    \/ Interrupt
    \/ Cleanup

SpecShutdown == InitSetup /\ [][NextShutdown]_vars

\* echo_delay values of the long runs: the initial one and the upper limit
StageDelays == {INIT_ECHO_DELAY, 10}

\* the attribute values the long runs start from: every combination of the
\* four flags, set by r, e, f, d before the first frame arrives, with
\* echo_delay as constructed or raised to its limit by '4' and the filter
\* type as constructed or cycled by 'l'
StageParams ==
    {[InitParams EXCEPT !.filter_enabled = f, !.distortion_enabled = d,
                        !.reverb_enabled = r, !.echo_enabled = e,
                        !.echo_delay = delay, !.filter_type = FilterTypes[t]] :
        f \in BOOLEAN, d \in BOOLEAN, r \in BOOLEAN, e \in BOOLEAN,
        delay \in StageDelays, t \in 1..Len(FilterTypes)}

\* the effects processor before its first frame, the keys already pressed
InitStages ==
    /\ prog = "effects"
    /\ engine = InitEngine
    /\ params \in StageParams
    /\ input_queue = <<>>
    /\ output_queue = <<>>
    /\ input_buffer = Zeros(ROLLING_WINDOW)
    /\ output_buffer = Zeros(ROLLING_WINDOW)
    /\ echo_buffer = Zeros(ECHO_BUFFER_LEN)
    /\ audio_queue = <<>>
    /\ proc = InitProc
    /\ cb = InitCb
    /\ beat = NONE
    /\ rec = NONE
    /\ nextId = 0
    /\ hist = InitHist
    /\ keys = 0
    /\ seen = {params}

\* frame n of a steady loud source: no two consecutive frames are equal
StageFrame(n) ==
    [i \in 1..CHUNK |-> IF i % 2 = 1 THEN 1000 - (n % 5) ELSE -(600 + (n % 3))]

\* the capture callback delivers the next frame of the steady source; the
\* processing loop keeps up, so no frame is dropped
StageCapture ==
    /\ nextId < MaxStageFrames
    /\ QEmpty(input_queue)
    /\ input_callback(StageFrame(nextId + 1))

\* a long run of the chain on a steady source, the controls left alone
NextStages == StageCapture \/ FxProcess

SpecStages == InitStages /\ [][NextStages]_vars

\* the beat detector as constructed, the clock running
InitBeats ==
    /\ prog = "beat"
    /\ engine = InitEngine
    /\ params = NONE
    /\ input_queue = <<>>
    /\ output_queue = <<>>
    /\ input_buffer = <<>>
    /\ output_buffer = <<>>
    /\ echo_buffer = <<>>
    /\ audio_queue = <<>>
    /\ proc = InitProc
    /\ cb = [InitCb EXCEPT !.now = ClockStart]
    /\ beat = InitBeat
    /\ rec = NONE
    /\ nextId = 0
    /\ hist = InitHist
    /\ keys = 0
    /\ seen = {}

\* onset strengths fed to detect_beats: silence and a clear onset (1.0)
OnsetLevels == {0, 100}

\* ms between consecutive calls of detect_beats: none, less than and more
\* than the minimum beat interval, and a pause of five seconds
OnsetGaps == {0, 200, 400, 5000}

\* is_beat = self.detect_beats(onset_strength, timestamp), dt after the last call
detect_beats(onset_strength, dt) ==
    /\ prog = "beat"
    /\ nextId' = nextId + 1
    /\ beat' = DetectBeats(beat, onset_strength, cb.now + dt)
    /\ cb' = [cb EXCEPT !.now = @ + dt]
    /\ UNCHANGED <<prog, engine, params, input_queue, output_queue, input_buffer,
                   output_buffer, echo_buffer, audio_queue, proc, rec, hist, keys, seen>>

\* any onset sequence with non-decreasing timestamps
NextBeats ==
    /\ nextId < MaxOnsets
    /\ \E o \in OnsetLevels, dt \in OnsetGaps : detect_beats(o, dt)

SpecBeats == InitBeats /\ [][NextBeats]_vars

\* the running beat detector: the capture callback and the processing loop
\* interleaved, the clock running
NextBeatLive ==
    \/ /\ nextId < MaxFrames
       /\ \E audio_data \in InputFrames, dt \in ClockSteps :
             beat_audio_callback(audio_data, dt)
    \/ BeatProcess

SpecBeatLive == InitBeats /\ [][NextBeatLive]_vars

\* the detector after detect_beats has been called on each entry of levels,
\* gap ms apart, the first call at time t + gap
RECURSIVE FeedOnsets(_, _, _, _)
FeedOnsets(b, levels, t, gap) ==
    IF levels = <<>> THEN b
    ELSE FeedOnsets(DetectBeats(b, Head(levels), t + gap), Tail(levels), t + gap, gap)

\* a loud passage that fades: eight clear onsets and four faint ones, 400 ms apart
FadedPassage == <<100, 100, 100, 100, 100, 100, 100, 100, 20, 20, 20, 20>>

\* the beat detector as constructed, or after it has heard the faded passage
InitOnsets ==
    /\ prog = "beat"
    /\ engine = InitEngine
    /\ params = NONE
    /\ input_queue = <<>>
    /\ output_queue = <<>>
    /\ input_buffer = <<>>
    /\ output_buffer = <<>>
    /\ echo_buffer = <<>>
    /\ audio_queue = <<>>
    /\ proc = InitProc
    /\ \/ /\ beat = InitBeat
          /\ cb = [InitCb EXCEPT !.now = ClockStart]
       \/ /\ beat = FeedOnsets(InitBeat, FadedPassage, ClockStart, 400)
          /\ cb = [InitCb EXCEPT !.now = ClockStart + 400 * Len(FadedPassage)]
    /\ rec = NONE
    /\ nextId = 0
    /\ hist = InitHist
    /\ keys = 0
    /\ seen = {}

\* onset strengths: below BEAT_THRESHOLD, above it, and a clear onset
OnsetLevelsFine == {20, 50, 100}

\* the next calls of detect_beats, 200 or 400 ms apart
NextOnsets ==
    /\ nextId < MaxOnsetCalls
    /\ \E o \in OnsetLevelsFine, dt \in {200, 400} : detect_beats(o, dt)

SpecOnsets == InitOnsets /\ [][NextOnsets]_vars

\* sample values of the chunks handed to compute_onset_strength
ChunkSamples == {-1000, -500, 0, 500, 1000}

\* every chunk of at most n samples
ChunksUpTo(n) == UNION {[1..k -> ChunkSamples] : k \in 0..n}

\* the processing loop of the beat detector holds a chunk of any length and is
\* about to call compute_onset_strength on it
InitChunks ==
    /\ prog = "beat"
    /\ engine = InitEngine
    /\ params = NONE
    /\ input_queue = <<>>
    /\ output_queue = <<>>
    /\ input_buffer = <<>>
    /\ output_buffer = <<>>
    /\ echo_buffer = <<>>
    /\ audio_queue = <<>>
    /\ \E audio_chunk \in ChunksUpTo(MaxChunkLen) :
          proc = [InitProc EXCEPT !.pc = "detect",
                                  !.audio_chunk = [id |-> 1, data |-> audio_chunk,
                                                   timestamp |-> ClockStart]]
    /\ cb = [InitCb EXCEPT !.now = ClockStart]
    /\ beat = InitBeat
    /\ rec = NONE
    /\ nextId = 1
    /\ hist = [InitHist EXCEPT !.dequeued = <<1>>]
    /\ keys = 0
    /\ seen = {}

SpecChunks == InitChunks /\ [][BeatDetect]_vars

\* ms between two impulses of a 120 BPM onset sequence
ImpulsePeriod == 60000 \div 120

\* ms between consecutive onset values: the sequence is sampled five or two
\* times per impulse period, so zeros lie between the impulses
ImpulseCadences == {ImpulsePeriod \div 5, ImpulsePeriod \div 2}

\* ms from the start of the sequence to the clock reading t
SinceStart(t) == t - ClockStart

\* the next onset value of the impulse sequence arrives dt after the last one:
\* 1.0 on a multiple of the period, zero otherwise; the cadence may change
\* only where the new one still lands on the next impulse
impulse_sample(dt) ==
    /\ SinceStart(cb.now) + dt <= MaxImpulses * ImpulsePeriod
    /\ (ImpulsePeriod - (SinceStart(cb.now) % ImpulsePeriod)) % dt = 0
    /\ detect_beats(IF SinceStart(cb.now + dt) % ImpulsePeriod = 0 THEN 100 ELSE 0, dt)

NextImpulses == \E dt \in ImpulseCadences : impulse_sample(dt)

SpecImpulses == InitBeats /\ [][NextImpulses]_vars

\* filter_cutoff values in Hz: the constructed one, and three that
\* normalize to a critical frequency outside (0, 1).  on_key_press keeps the
\* attribute in [100, 8000]; the other values stand for an assignment to the
\* public attribute from outside the key handler, the only way the except
\* branch of apply_filter is entered.
FilterCutoffs == {INIT_FILTER_CUTOFF, 0, RATE \div 2, RATE}

\* the effects processor with the filter on and filter_cutoff as assigned
InitFilter ==
    /\ prog = "effects"
    /\ engine = InitEngine
    /\ params \in {[q EXCEPT !.filter_enabled = TRUE, !.filter_cutoff = c] :
                      q \in StageParams, c \in FilterCutoffs}
    /\ input_queue = <<>>
    /\ output_queue = <<>>
    /\ input_buffer = Zeros(ROLLING_WINDOW)
    /\ output_buffer = Zeros(ROLLING_WINDOW)
    /\ echo_buffer = Zeros(ECHO_BUFFER_LEN)
    /\ audio_queue = <<>>
    /\ proc = InitProc
    /\ cb = InitCb
    /\ beat = NONE
    /\ rec = NONE
    /\ nextId = 0
    /\ hist = InitHist
    /\ keys = 0
    /\ seen = {params}

SpecFilter == InitFilter /\ [][NextStages]_vars

\* the capture callback delivers a silent frame
SilentCapture ==
    /\ nextId < MaxStageFrames
    /\ QEmpty(input_queue)
    /\ input_callback(Zeros(CHUNK))

\* a long run of the chain on silence
NextSilence == SilentCapture \/ FxProcess

SpecSilence == InitStages /\ [][NextSilence]_vars

-----------------------------------------------------------------------------
(* Properties of the frame queues and the callbacks *)

\* the capacity of the script's capture queue
CaptureMaxsize == IF prog = "recorder" THEN REC_QUEUE_MAXSIZE ELSE QUEUE_MAXSIZE

\* the script's capture queue
CaptureQueue == IF prog = "effects" THEN input_queue ELSE audio_queue

\* C1: the number of frames held in a frame queue never exceeds the queue's
\* maxsize, for the effects input and output queues, the beat detector's queue
\* and the recorder's queue.
C1_QueueWithinMaxsize ==
    /\ Len(input_queue) <= QUEUE_MAXSIZE
    /\ Len(output_queue) <= QUEUE_MAXSIZE
    /\ Len(audio_queue) <= CaptureMaxsize

\* a capture queue is at its capacity and a further frame has been turned away
C1_Witness ==
    /\ prog = "effects"
    /\ Len(input_queue) = QUEUE_MAXSIZE
    /\ hist.dropped # <<>>

\* C2: the capture and playback callbacks never block: whatever the state of
\* the queues, each callback can run, runs to its end and returns the
\* continue status.
C2_CallbacksNeverBlock ==
    /\ prog = "effects" =>
         /\ \A audio_data \in InputFrames : ENABLED input_callback(audio_data)
         /\ \A frame_count \in FrameCounts : ENABLED output_callback(frame_count)
    /\ prog = "beat" =>
         \A audio_data \in InputFrames, dt \in ClockSteps :
             ENABLED beat_audio_callback(audio_data, dt)
    /\ prog = "recorder" =>
         /\ cb.pc = "idle" =>
              \A in_data \in RecInputFrames(rec.CHANNELS) :
                  ENABLED rec_audio_callback(in_data, 1)
         /\ cb.pc = "evict" => ENABLED rec_audio_callback_evict
         /\ cb.pc = "retry" => ENABLED rec_audio_callback_retry
    /\ cb.in_ret \in {NONE, "paContinue"}
    /\ cb.out_ret.status \in {NONE, "paContinue"}

\* the capture callback has returned from a full queue and the playback
\* callback from an empty one
C2_Witness ==
    /\ prog = "effects"
    /\ hist.dropped # <<>>
    /\ cb.in_ret = "paContinue"
    /\ cb.out_ret.underrun
    /\ cb.out_ret.status = "paContinue"

\* a step of the capture callback that found its queue full
CaptureOnFull ==
    \/ /\ nextId' # nextId
       /\ QFull(CaptureQueue, CaptureMaxsize)
    \/ /\ cb.pc \in {"evict", "retry"}
       /\ cb'.pc # cb.pc

\* C3 as stated: on every capture queue (effects, beat detector and recorder)
\* a capture callback that finds the queue full drops the incoming frame and
\* leaves the queued frames unchanged.
C3_DropNewestEverywhere ==
    [][CaptureOnFull => CaptureQueue' = CaptureQueue]_vars

\* C3: in the effects processor and the beat detector a capture callback that
\* finds the queue full drops the incoming frame and leaves the queued frames
\* unchanged; the recorder's callback removes the oldest queued frame and
\* enqueues the incoming one, and drops the incoming frame only when the
\* queue has been emptied in between.
C3_DropNewestFxBeat ==
    [][/\ (prog # "recorder" /\ CaptureOnFull) =>
             /\ CaptureQueue' = CaptureQueue
             /\ hist'.dropped = Append(hist.dropped, nextId')
       /\ (prog = "recorder" /\ cb.pc = "evict" /\ cb'.pc # cb.pc) =>
             IF QEmpty(audio_queue)
             THEN audio_queue' = audio_queue /\ cb'.pc = "idle"
             ELSE audio_queue' = Tail(audio_queue) /\ cb'.pc = "retry"
       /\ (prog = "recorder" /\ cb.pc = "retry" /\ cb'.pc # cb.pc) =>
             audio_queue' = Append(audio_queue, cb.item)]_vars

\* the effects capture callback has turned a frame away and the frames queued
\* before it are still the queue's content
C3_Witness ==
    /\ prog = "effects"
    /\ hist.dropped = <<QUEUE_MAXSIZE + 1>>
    /\ hist.dequeued = <<>>
    /\ Len(input_queue) = QUEUE_MAXSIZE
    /\ \A i \in 1..QUEUE_MAXSIZE : input_queue[i].id = i

\* C4 as stated: when the output queue is full the processing loop evicts the
\* oldest processed frame and retries, so the frame just processed is in the
\* output queue after the push.
C4_OutputEvictsOldest ==
    [][(FxAt("put") /\ proc'.pc = "check" /\ QFull(output_queue, QUEUE_MAXSIZE)) =>
          output_queue' = Append(Tail(output_queue),
                                 [id |-> proc.audio_chunk.id, data |-> proc.processed])]_vars

\* C5: the frames the processing loop dequeues are an order-preserving
\* subsequence of the captured frames, and the frames handed to playback an
\* order-preserving subsequence of the frames the loop produced; no frame is
\* reordered or duplicated.
C5_OrderPreserved ==
    /\ IsSubseq(hist.dequeued, [i \in 1..nextId |-> i])
    /\ NoDuplicates(hist.dequeued)
    /\ prog = "effects" =>
         /\ IsSubseq(hist.produced, hist.dequeued)
         /\ IsSubseq(hist.played, hist.produced)
         /\ NoDuplicates(hist.played)

\* two frames were played in order while a captured frame was dropped
C5_Witness ==
    /\ prog = "effects"
    /\ Len(hist.played) >= 2
    /\ hist.dropped # <<>>

\* C6: a playback callback that finds the output queue empty returns exactly
\* frame_count samples, all zero, with the continue status.
C6_SilenceOnUnderrun ==
    cb.out_ret.underrun =>
        /\ Len(cb.out_ret.data) = cb.out_ret.frame_count
        /\ \A i \in 1..Len(cb.out_ret.data) : cb.out_ret.data[i] = 0
        /\ cb.out_ret.status = "paContinue"

\* the playback callback ran dry after it had played a frame
C6_Witness ==
    /\ cb.out_ret.underrun
    /\ cb.out_ret.frame_count = CHUNK
    /\ hist.played # <<>>

\* C7: no exception leaves a capture or playback callback; queue.Full and
\* queue.Empty are handled inside, also on the recorder's evict-then-retry path.
C7_NoExceptionEscapes == cb.escaped = NONE

\* the recorder's callback found its queue full, then met an empty queue when
\* it came to evict, and returned
C7_Witness ==
    /\ prog = "recorder"
    /\ hist.dropped # <<>>
    /\ cb.pc = "idle"
    /\ cb.in_ret = "paContinue"

\* C8 as stated: the parameter values read while one frame is processed are,
\* together, the content of the store at one single moment.
C8_ConsistentSnapshot ==
    prog = "effects" =>
        \E s \in seen : \A field \in proc.read : proc.used[field] = s[field]

\* C9: whatever keys are pressed, distortion_gain stays in [1.0, 5.0],
\* filter_cutoff in [100, 8000], reverb_decay in [0.1, 0.9], echo_delay in
\* [0.1, 1.0] and filter_type in {low, high, band}.
C9_ParametersInDomain ==
    prog = "effects" =>
        /\ params.distortion_gain \in 10..50
        /\ params.filter_cutoff \in 100..8000
        /\ params.reverb_decay \in 1..9
        /\ params.echo_delay \in 1..10
        /\ params.filter_type \in {"low", "high", "band"}

\* every adjustable parameter sits on a limit of its domain
C9_Witness ==
    /\ params.distortion_gain = 50
    /\ params.filter_cutoff = 100
    /\ params.reverb_decay = 9
    /\ params.echo_delay = 1
    /\ params.filter_type = "band"

\* the four enabled flags as the frame in progress read them
EnabledFlags ==
    {"filter_enabled", "distortion_enabled", "reverb_enabled", "echo_enabled"}

\* C10: with the four effects disabled the chain's output equals its input,
\* for every frame and whatever the other parameters hold.
C10_DisabledChainIsIdentity ==
    (/\ FxAt("roll_out")
     /\ \A field \in EnabledFlags : ~proc.used[field]) =>
        proc.processed = proc.audio_chunk.data

\* a sounding frame has passed the disabled chain after two parameters moved
C10_Witness ==
    /\ FxAt("roll_out")
    /\ \A field \in EnabledFlags : ~proc.used[field]
    /\ proc.audio_chunk.data # Zeros(CHUNK)
    /\ params.distortion_gain # INIT_DISTORTION_GAIN
    /\ params.filter_cutoff # INIT_FILTER_CUTOFF

-----------------------------------------------------------------------------
(* Properties of the effect chain *)

\* Echo(Reverb(Distortion(Filter(frame)))) with the attribute values p, each
\* stage the identity when its flag is off; delay_line is the echo buffer the
\* frame finds
ChainOutput(frame, p, delay_line) ==
    LET filtered == IF p.filter_enabled
                    THEN Filter(frame, p.filter_cutoff, p.filter_type) ELSE frame
        distorted == IF p.distortion_enabled
                     THEN Distort(filtered, p.distortion_gain) ELSE filtered
        reverbed == IF p.reverb_enabled
                    THEN Reverb(distorted, p.reverb_decay) ELSE distorted
    IN  IF p.echo_enabled
        THEN EchoOutput(reverbed, delay_line, EchoDelaySamples(p.echo_delay),
                        p.echo_feedback)
        ELSE reverbed

\* C11: for each of the 16 combinations of the enabled flags the chain's
\* output is Echo(Reverb(Distortion(Filter(frame)))) in that order, every
\* enabled stage applied exactly once and every disabled stage the identity.
C11_ChainIsComposition ==
    FxAt("roll_out") =>
        proc.processed = ChainOutput(proc.audio_chunk.data, proc.used, proc.echo_before)

\* all four stages are on and the echo stage reads a sample that has sounded
C11_Witness ==
    /\ FxAt("roll_out")
    /\ \A field \in EnabledFlags : proc.used[field]
    /\ proc.echo_before[1 + EchoDelaySamples(proc.used.echo_delay)] # 0

\* C12: from a freshly constructed processor with all four effects enabled,
\* any number of all-zero frames gives an all-zero output frame every time.
C12_SilenceStaysSilent ==
    (prog = "effects" /\ \A field \in EnabledFlags : params[field]) =>
        /\ echo_buffer = Zeros(ECHO_BUFFER_LEN)
        /\ output_buffer = Zeros(ROLLING_WINDOW)
        /\ \A i \in 1..Len(proc.processed) : proc.processed[i] = 0
        /\ \A k \in 1..Len(output_queue) : output_queue[k].data = Zeros(CHUNK)

\* the last of a long run of silent frames has passed the four enabled stages
C12_Witness ==
    /\ FxAt("roll_out")
    /\ \A field \in EnabledFlags : proc.used[field]
    /\ proc.audio_chunk.id = MaxStageFrames
    /\ proc.processed = Zeros(CHUNK)

\* the limit of 1 + f + f^2 + ... for f = echo_feedback, on the sample scale,
\* with one unit for the rounding of the fixed-point products
EchoBound == (1000 * 10) \div (10 - ECHO_FEEDBACK) + 1

\* the frame in progress has passed the reverb and echo tests
PastReverbAndEcho == proc.pc \in {"roll_out", "write_out", "put"}

\* C13: with input samples in [-1, 1], echo_feedback below 1 and reverb_decay
\* below 1, every sample the reverb and echo stages produce, and every sample
\* the echo delay line holds, stays within one fixed bound however many
\* frames are processed.
C13_EchoReverbBounded ==
    /\ params.echo_feedback < 10 /\ params.reverb_decay < 10
    /\ \A i \in 1..Len(echo_buffer) : Abs(echo_buffer[i]) <= EchoBound
    /\ (PastReverbAndEcho /\ (proc.used.reverb_enabled \/ proc.used.echo_enabled)) =>
           \A i \in 1..Len(proc.processed) : Abs(proc.processed[i]) <= EchoBound
    /\ \A i \in 1..Len(output_buffer) : Abs(output_buffer[i]) <= EchoBound

\* an echo of an echo has been added to a full-scale sample
C13_Witness ==
    /\ FxAt("roll_out")
    /\ proc.used.echo_enabled
    /\ \E i \in 1..Len(proc.processed) : Abs(proc.processed[i]) > 1500
    /\ \E i \in 1..Len(proc.audio_chunk.data) : Abs(proc.audio_chunk.data[i]) > 990

\* the filter design raised for the frame in progress
FilterFailed ==
    /\ prog = "effects"
    /\ "filter_type" \in proc.read
    /\ FilterDesignRaises(proc.used.filter_type, NormalizedCutoff(proc.used.filter_cutoff))

\* C14: when the filter design or application raises for a parameter
\* combination, the filter stage returns the frame it received, the remaining
\* stages are still applied to it, and the processing loop keeps running and
\* processes later frames.
C14_FilterFailurePassesThrough ==
    FilterFailed =>
        /\ FxAt("distortion") => proc.processed = proc.audio_chunk.data
        /\ FxAt("roll_out") =>
               proc.processed = ChainOutput(proc.audio_chunk.data,
                                            [proc.used EXCEPT !.filter_enabled = FALSE],
                                            proc.echo_before)
        /\ proc.pc \in {"put", "check", "sleep", "get"} => ENABLED FxProcess
        /\ hist.dequeued = [k \in 1..Len(hist.dequeued) |-> k]

\* a later frame leaves the chain, distorted, after the filter failed for it
\* and for the frames before it
C14_Witness ==
    /\ FilterFailed
    /\ FxAt("roll_out")
    /\ proc.used.distortion_enabled
    /\ proc.audio_chunk.id = MaxStageFrames
    /\ proc.processed # proc.audio_chunk.data

-----------------------------------------------------------------------------
(* Properties of the beat detector *)

\* C15: for any onset sequence with non-decreasing timestamps, any two beats
\* detect_beats records are more than 60 / MAX_BPM seconds (a third of a
\* second) apart.
C15_BeatsMinInterval ==
    prog = "beat" =>
        \A i, j \in 1..Len(beat.beat_times) :
            i < j => MAX_BPM * (beat.beat_times[j] - beat.beat_times[i]) > 60000

\* two beats 400 ms apart are recorded, after an onset that came too early
C15_Witness ==
    /\ prog = "beat"
    /\ Len(beat.beat_times) >= 2
    /\ beat.beat_times[2] - beat.beat_times[1] = 400
    /\ beat.onset_buffer[ONSET_BUFFER_LEN - 1] = 100
    /\ beat.onset_buffer[ONSET_BUFFER_LEN] = 100
    /\ nextId = 3

\* C16: the tempo estimate stays within [MIN_BPM, MAX_BPM] = [60, 180] in
\* every reachable state.
C16_TempoInRange ==
    prog = "beat" =>
        /\ MIN_BPM * 1000 <= beat.current_tempo
        /\ beat.current_tempo <= MAX_BPM * 1000
        /\ \A i \in 1..Len(beat.tempo_history) :
               /\ MIN_BPM * 1000 <= beat.tempo_history[i]
               /\ beat.tempo_history[i] <= MAX_BPM * 1000

\* the estimate has moved, and a beat five seconds after the last one
\* (12 BPM) has been recorded without moving it further
C16_Witness ==
    /\ prog = "beat"
    /\ beat.current_tempo # INIT_TEMPO
    /\ Len(beat.beat_times) >= 3
    /\ beat.beat_times[Len(beat.beat_times)]
         - beat.beat_times[Len(beat.beat_times) - 1] = 5000
    /\ Len(beat.tempo_history) < Len(beat.beat_times) - 1

\* the impulses of the sequence that have arrived by now
ImpulsesSoFar == SinceStart(cb.now) \div ImpulsePeriod

-----------------------------------------------------------------------------
(* Properties of the rolling buffers *)

\* frames whose samples process_audio has written into input_buffer
FramesWritten ==
    IF proc.pc \in {"roll_in", "write_in"}
    THEN Len(hist.dequeued) - 1
    ELSE Len(hist.dequeued)

\* sample q (from 1) of the stream of all samples dequeued so far
StreamSample(q) ==
    StageFrame(hist.dequeued[((q - 1) \div CHUNK) + 1])[((q - 1) % CHUNK) + 1]

\* C18: writing k <= N samples into a rolling buffer of capacity N leaves it
\* holding the last N samples of its previous contents followed by the
\* written samples, oldest first (capacity 4 holding [.., 1, 2], written with
\* [3, 4, 5], holds [2, 3, 4, 5]), and its length never changes.
C18_RollingBufferKeepsLastN ==
    /\ WriteTail(Roll(WriteTail(Roll(Zeros(4), 2), <<1, 2>>), 3), <<3, 4, 5>>)
           = <<2, 3, 4, 5>>
    /\ prog = "effects" =>
           /\ Len(input_buffer) = ROLLING_WINDOW
           /\ Len(output_buffer) = ROLLING_WINDOW
           /\ Len(echo_buffer) = ECHO_BUFFER_LEN
           /\ proc.pc # "write_in" =>
                  \A j \in 1..ROLLING_WINDOW :
                      LET q == FramesWritten * CHUNK - ROLLING_WINDOW + j
                      IN  input_buffer[j] = IF q >= 1 THEN StreamSample(q) ELSE 0

\* more samples than the buffer holds have been written: the oldest are gone
C18_Witness ==
    /\ FxAt("filter")
    /\ FramesWritten * CHUNK > ROLLING_WINDOW
    /\ input_buffer[1] = StreamSample(FramesWritten * CHUNK - ROLLING_WINDOW + 1)
    /\ input_buffer[ROLLING_WINDOW] = proc.audio_chunk.data[CHUNK]

-----------------------------------------------------------------------------
(* Properties of the recorder's sessions *)

\* stop_recording has just finalized a session
SessionFinalized ==
    /\ prog = "recorder"
    /\ Len(rec'.recording_sessions) = Len(rec.recording_sessions) + 1

\* C19: when stop_recording finalizes a session, the session's frames are
\* exactly the frames the processing loop took while recording was active and
\* not paused since the matching start_recording, in dequeue order: none is
\* missing, whatever the interleaving of the controls with the loop.
C19_SessionHoldsEveryFrame ==
    [][SessionFinalized =>
          rec'.heap[rec'.recording_sessions[Len(rec'.recording_sessions)]].frames
              = rec.taken]_vars

-----------------------------------------------------------------------------
(* Properties of the shutdown *)

\* the positions of process_audio inside its while loop
LoopPositions ==
    {"check", "sleep", "get", "roll_in", "write_in", "filter", "filter_cutoff",
     "filter_type", "filter_type_high", "distortion", "distortion_gain",
     "reverb", "reverb_loop", "echo", "echo_delay", "echo_loop",
     "roll_out", "write_out", "put"}

\* C20: stopping the engine signals the processing loop to exit: once cleanup
\* has begun, the loop eventually leaves its loop, after draining or
\* abandoning the queues, and processes no further frames.
C20_LoopExitsAfterCleanup ==
    (prog = "effects" /\ engine.pc # "show") ~> (proc.pc \notin LoopPositions)

\* a stream that was opened and has not been closed
StillOpen(stream) == stream \in {"active", "stopped", "terminated"}

\* C21: during shutdown every capture and playback stream that was opened is
\* stopped and closed before the audio subsystem handle is terminated, on
\* every exit path of run: window close, KeyboardInterrupt, and with only
\* some or none of the streams opened.
C21_StreamsClosedBeforeTerminate ==
    engine.p = "terminated" =>
        /\ ~StillOpen(engine.input_stream)
        /\ ~StillOpen(engine.output_stream)
        /\ ~StillOpen(engine.leaked)

-----------------------------------------------------------------------------
(* Properties of the drop accounting *)

\* the attributes of the three objects, without the ghost variables and the
\* positions of the threads: a drop counter would be one of them
Attributes ==
    <<params, input_queue, output_queue, audio_queue, input_buffer, output_buffer,
      echo_buffer, beat, rec>>

\* a frame has just been dropped because a queue was full
FrameDropped ==
    \/ Len(hist'.dropped) > Len(hist.dropped)
    \/ Len(hist'.out_dropped) > Len(hist.out_dropped)

\* C22: every frame dropped because a queue was full is recorded in a drop
\* counter, which never decreases: a drop changes an attribute of the object.
C22_DropsAreCounted ==
    [][FrameDropped => Attributes' # Attributes]_vars

-----------------------------------------------------------------------------
(* Properties of the echo delay line *)

\* the frame as the echo stage received it
EchoStageInput ==
    ChainOutput(proc.audio_chunk.data, [proc.used EXCEPT !.echo_enabled = FALSE],
                proc.echo_before)

\* the echo stage has just returned for the frame in progress
EchoApplied == FxAt("roll_out") /\ proc.used.echo_enabled

\* The echo-stage output n samples before sample k of the frame just
\* written: the delay line ends with that frame, oldest sample first.
EchoOutputBack(k, n) == echo_buffer[Len(echo_buffer) - Len(proc.processed) + k - n]

\* C23: with echo enabled each output sample is the input sample plus
\* echo_feedback times the echo-stage output produced int(echo_delay * RATE)
\* samples earlier in the stream, and the frame's output is then appended to
\* the delay line.
C23_EchoIsDelaySamplesBack ==
    EchoApplied =>
        /\ \A k \in 1..Len(proc.processed) :
               proc.processed[k] =
                   EchoStageInput[k]
                   + MulDiv(EchoOutputBack(k, EchoDelaySamples(proc.used.echo_delay)),
                            proc.used.echo_feedback, 10)
        /\ LastN(echo_buffer, Len(proc.processed)) = proc.processed

\* the positions of the delay line the loop of apply_echo reads for a frame
\* of n samples: i + delay_samples for the i that pass its test
EchoReadPositions(n, delay_samples) ==
    {k + delay_samples : k \in {i \in 1..n : i - 1 < Len(echo_buffer) - delay_samples}}

\* C24: for every echo_delay the controls can reach, each call of the echo
\* stage advances the delay line by exactly one frame length, the line keeps
\* its 2-second capacity, and every position read from it lies inside it.
C24_DelayLineAdvancesOneFrame ==
    prog = "effects" =>
        /\ Len(echo_buffer) = ECHO_BUFFER_LEN
        /\ FxAt("echo_loop") =>
               EchoReadPositions(Len(proc.processed),
                                 EchoDelaySamples(proc.used.echo_delay))
                   \subseteq 1..Len(echo_buffer)
        /\ EchoApplied =>
               /\ \A j \in 1..(Len(echo_buffer) - Len(proc.processed)) :
                      echo_buffer[j] = proc.echo_before[j + Len(proc.processed)]
               /\ LastN(echo_buffer, Len(proc.processed)) = proc.processed

\* the echo stage has run with echo_delay raised to its upper limit, on a
\* delay line that holds the output of an earlier frame
C24_Witness ==
    /\ EchoApplied
    /\ proc.used.echo_delay = 10
    /\ \E j \in 1..(Len(echo_buffer) - Len(proc.processed)) : echo_buffer[j] # 0

-----------------------------------------------------------------------------
(* Properties of detect_beats and update_tempo *)

\* the call of detect_beats that has just returned: its sample and its time
SampleFed == beat'.onset_buffer[Len(beat'.onset_buffer)]
TimeFed == cb'.now

\* the last 20 and the last 5 entries of the onset history after the call
Last20 == LastN(beat'.onset_buffer, 20)
Last5 == LastN(beat'.onset_buffer, 5)

\* s > mean(last 20) + 0.1 * std(last 20), over the integers: with m the sum
\* and q the sum of squares of the n entries, n s - m > 0 and
\* 100 (n s - m)^2 > n q - m^2
ExceedsThreshold ==
    LET n == Len(Last20)
        m == SumSeq(Last20)
        q == SumSquares(Last20)
    IN  n * SampleFed > m /\ 100 * (n * SampleFed - m) * (n * SampleFed - m) > n * q - m * m

\* the four conditions of a beat
BeatConditions ==
    <<ExceedsThreshold,
      SampleFed > BEAT_THRESHOLD,
      MAX_BPM * (TimeFed - beat.last_beat_time) > 60000,
      \A i \in 1..Len(Last5) : Last5[i] <= SampleFed>>

\* C25: detect_beats reports a beat for sample s at time t if and only if,
\* with s appended to the onset history, s exceeds mean + ONSET_THRESHOLD *
\* std of the last 20 entries, s exceeds BEAT_THRESHOLD, t is more than
\* 60 / MAX_BPM after last_beat_time and s is the maximum of the last 5
\* entries; it then sets last_beat_time = t and appends t to beat_times, and
\* otherwise changes neither.
C25_BeatIffFourConditions ==
    [][(prog = "beat" /\ nextId' = nextId + 1) =>
          IF \A c \in 1..4 : BeatConditions[c]
          THEN /\ beat'.last_beat_time = TimeFed
               /\ beat'.beat_times # <<>>
               /\ beat'.beat_times[Len(beat'.beat_times)] = TimeFed
               /\ IsSubseq(SubSeq(beat'.beat_times, 1, Len(beat'.beat_times) - 1),
                           beat.beat_times)
          ELSE /\ beat'.last_beat_time = beat.last_beat_time
               /\ beat'.beat_times = beat.beat_times]_vars

\* the newest entry of the onset history
NewestOnset == beat.onset_buffer[Len(beat.onset_buffer)]

\* a sample above BEAT_THRESHOLD that is the maximum of the last 5 entries and
\* comes long after the last beat has been fed, and no beat was reported for
\* it: it did not exceed the adaptive threshold
C25_Witness ==
    /\ prog = "beat"
    /\ nextId > 0
    /\ NewestOnset > BEAT_THRESHOLD
    /\ \A i \in 1..5 : LastN(beat.onset_buffer, 5)[i] <= NewestOnset
    /\ MAX_BPM * (cb.now - beat.last_beat_time) > 60000
    /\ beat.beat_times # <<>>

\* the call of detect_beats that has just returned reported a beat
BeatFired ==
    /\ prog = "beat"
    /\ nextId' = nextId + 1
    /\ beat'.last_beat_time # beat.last_beat_time

\* the intervals among the last 10 beats, the new one included, that pass the
\* median-based outlier rejection
Surviving == ValidIntervals(Diff(LastN(beat'.beat_times, 10)))

\* 60 / mean(surviving intervals), in thousandths of a BPM
SurvivingTempo == (60000000 * Len(Surviving)) \div SumSeq(Surviving)

\* 0.8 * previous tempo + 0.2 * (60 / mean surviving interval)
Smoothed == (8 * beat.current_tempo + 2 * SurvivingTempo) \div 10

\* MIN_BPM <= 60 / mean surviving interval <= MAX_BPM
SurvivingTempoInRange ==
    /\ MIN_BPM * SumSeq(Surviving) <= 60000 * Len(Surviving)
    /\ 60000 * Len(Surviving) <= MAX_BPM * SumSeq(Surviving)

\* C26 as stated: whenever a beat fires and at least one interval survives,
\* current_tempo becomes 0.8 * previous + 0.2 * (60 / mean surviving
\* interval), clamped to [MIN_BPM, MAX_BPM]; it is left alone only when no
\* interval survives.
C26_TempoUpdatedWheneverIntervalSurvives ==
    [][BeatFired =>
          IF Len(Surviving) > 0
          THEN /\ beat'.current_tempo =
                      Max2(MIN_BPM * 1000, Min2(Smoothed, MAX_BPM * 1000))
               /\ beat'.tempo_history # beat.tempo_history
          ELSE /\ beat'.current_tempo = beat.current_tempo
               /\ beat'.tempo_history = beat.tempo_history]_vars

\* C26: whenever a beat fires, at least one interval survives and 60 / mean
\* surviving interval lies in [MIN_BPM, MAX_BPM], current_tempo becomes
\* 0.8 * previous + 0.2 * (60 / mean surviving interval) and is appended to
\* tempo_history; otherwise both are left alone.
C26_TempoUpdatedWhenEstimateInRange ==
    [][BeatFired =>
          IF Len(Surviving) > 0 /\ SurvivingTempoInRange
          THEN /\ beat'.current_tempo = Smoothed
               /\ beat'.tempo_history = LastN(Append(beat.tempo_history, Smoothed), 50)
          ELSE /\ beat'.current_tempo = beat.current_tempo
               /\ beat'.tempo_history = beat.tempo_history]_vars

\* the intervals of the beats recorded so far that pass the outlier rejection
SurvivingNow == ValidIntervals(Diff(LastN(beat.beat_times, 10)))

\* a beat has just been recorded, an interval survives, and the tempo it
\* gives is outside [MIN_BPM, MAX_BPM]
C26_Witness ==
    /\ prog = "beat"
    /\ nextId > 0
    /\ beat.last_beat_time = cb.now
    /\ Len(SurvivingNow) > 0
    /\ \/ MIN_BPM * SumSeq(SurvivingNow) > 60000 * Len(SurvivingNow)
       \/ 60000 * Len(SurvivingNow) > MAX_BPM * SumSeq(SurvivingNow)

\* C27: update_tempo, called for a beat, leaves current_tempo and
\* tempo_history as they were when beat_times holds fewer than 2 beats and
\* when every interval is rejected as an outlier, and returns normally (the
\* beat is recorded).
C27_NoTempoWithoutIntervals ==
    [][(BeatFired /\ (Len(beat'.beat_times) < 2 \/ Len(Surviving) = 0)) =>
          /\ beat'.current_tempo = beat.current_tempo
          /\ beat'.tempo_history = beat.tempo_history
          /\ beat'.last_beat_time = cb'.now
          /\ beat'.beat_times[Len(beat'.beat_times)] = cb'.now]_vars

\* a beat has just been recorded, at least two are held, and every interval
\* between them is an outlier
C27_Witness ==
    /\ prog = "beat"
    /\ nextId > 0
    /\ beat.last_beat_time = cb.now
    /\ Len(beat.beat_times) >= 2
    /\ Len(SurvivingNow) = 0

C29_BeatTimesWithinWindow ==
    (prog = "beat" /\ nextId > 0) =>
        \A i \in 1..Len(beat.beat_times) : cb.now - beat.beat_times[i] < 10000

-----------------------------------------------------------------------------
(* Reads of the rolling buffers by the visualization *)

\* buffer holds, oldest first, the last samples of the silence it started
\* with followed by the first n frames dequeued
Chronological(buffer, n) ==
    \A j \in 1..Len(buffer) :
        LET q == n * CHUNK - Len(buffer) + j
        IN  buffer[j] = IF q >= 1 THEN StreamSample(q) ELSE 0

\* C30: what update_visualization reads from a rolling buffer, at any point of
\* the processing loop, is in chronological order: input_buffer holds the
\* stream up to the frame before the one being processed, or up to that frame,
\* oldest first.
C30_ReadsAreChronological ==
    prog = "effects" =>
        \E n \in {Len(hist.dequeued) - 1, Len(hist.dequeued)} :
            n >= 0 /\ Chronological(input_buffer, n)

-----------------------------------------------------------------------------
(* Properties of compute_onset_strength *)

\* the analysis sub-frames (windows of WINDOW_SIZE, HOP_SIZE apart) that fit
\* into a chunk of n samples
SubframesFitting(n) ==
    Cardinality({j \in 0..n : j * HOP_SIZE + WINDOW_SIZE <= n})

\* the chunk whose onset strength is the newest entry of the onset history
ChunkAnalysed == proc.audio_chunk.data

\* C31: compute_onset_strength never returns a negative value, and returns 0
\* for every chunk in which fewer than 2 analysis sub-frames fit, that is for
\* every chunk shorter than window + hop, chunks shorter than the window
\* included.
C31_OnsetNonNegative ==
    (BeatAt("check") /\ Len(hist.dequeued) > 0) =>
        /\ NewestOnset >= 0
        /\ SubframesFitting(Len(ChunkAnalysed)) < 2 => NewestOnset = 0
        /\ SubframesFitting(Len(ChunkAnalysed)) < 2
               <=> Len(ChunkAnalysed) < WINDOW_SIZE + HOP_SIZE

\* a chunk in which two sub-frames fit, the second louder than the first, has
\* been analysed
C31_Witness ==
    /\ BeatAt("check")
    /\ Len(hist.dequeued) > 0
    /\ SubframesFitting(Len(ChunkAnalysed)) >= 2
    /\ NewestOnset > 0

-----------------------------------------------------------------------------
(* Progress of the processing loops *)

\* the queue the processing loop of the running program reads
LoopQueue == IF prog = "effects" THEN input_queue ELSE audio_queue

\* frame k sits in the queue of the processing loop
Queued(k) == \E i \in 1..Len(LoopQueue) : LoopQueue[i].id = k

\* frame k has been dequeued and the loop has finished with it
Processed(k) ==
    /\ \E i \in 1..Len(hist.dequeued) : hist.dequeued[i] = k
    /\ \/ proc.pc \in {"check", "sleep", "get"}
       \/ proc.audio_chunk.id # k

\* the loop enters its sleep only from the test of the queue, and only when
\* that test finds the queue empty
SleepsOnlyOnEmptyQueue ==
    [][(prog \in {"effects", "beat"} /\ proc'.pc = "sleep" /\ proc.pc # "sleep") =>
          (proc.pc = "check" /\ QEmpty(LoopQueue))]_vars

\* C32: in the effects processor and the beat detector the processing loop
\* begins a sleep only after it has observed an empty queue, every sleep ends
\* and the loop tests the queue again, and under fair scheduling every frame
\* accepted into the queue is eventually dequeued and processed; a frame
\* enqueued after the observation waits for the rest of that one sleep.
C32_LoopSleepsOnlyWhenIdle ==
    /\ SleepsOnlyOnEmptyQueue
    /\ (prog \in {"effects", "beat"} /\ proc.pc = "sleep") ~> (proc.pc = "check")
    /\ \A k \in 1..MaxFrames :
           (prog \in {"effects", "beat"} /\ Queued(k)) ~> Processed(k)

\* C32 as stated: the loop suspends only after observing an empty queue and
\* only for a bounded sleep, every accepted frame is eventually dequeued and
\* processed, and the loop never waits while a frame is queued.
C32_LoopNeverWaitsWhileQueued ==
    /\ C32_LoopSleepsOnlyWhenIdle
    /\ []((prog \in {"effects", "beat"} /\ proc.pc = "sleep") => QEmpty(LoopQueue))

\* the loop has finished with two frames, found the queue empty and sleeps
C32_Witness ==
    /\ prog \in {"effects", "beat"}
    /\ proc.pc = "sleep"
    /\ Len(hist.dequeued) >= 2
    /\ Processed(hist.dequeued[Len(hist.dequeued)])
    /\ QEmpty(LoopQueue)

-----------------------------------------------------------------------------
(* Properties of the reverb and echo stages *)

\* what the reverb stage received for the frame in progress
ReverbStageInput ==
    ChainOutput(proc.audio_chunk.data,
                [proc.used EXCEPT !.reverb_enabled = FALSE, !.echo_enabled = FALSE],
                proc.echo_before)

\* the reverb stage has run, enabled, for the frame in progress
ReverbApplied == FxAt("echo") /\ proc.used.reverb_enabled

\* C33: with reverb enabled and a frame shorter than the 50 ms delay no
\* delayed sample is mixed in: for every frame and every reverb_decay the
\* output of the stage is 0.7 times its input of the same frame, whatever the
\* frames before it were.
C33_ReverbOnlyScales ==
    ReverbApplied =>
        proc.processed =
            [i \in 1..Len(ReverbStageInput) |-> MulDiv(ReverbStageInput[i], 7, 10)]

\* the third frame, loud after a loud frame, leaves the enabled reverb stage
\* with the decay at its upper limit
C33_Witness ==
    /\ ReverbApplied
    /\ Len(proc.audio_chunk.data) <= ReverbDelaySamples
    /\ params.reverb_decay = 9
    /\ Len(hist.dequeued) = 3
    /\ proc.audio_chunk.data[1] # 0
    /\ proc.processed[1] # 0

-----------------------------------------------------------------------------
(* The beat detector on the frames its stream delivers *)

\* the frames in the queue and the frame the loop holds
FramesDelivered ==
    {audio_queue[i].data : i \in 1..Len(audio_queue)}
        \cup (IF hist.dequeued = <<>> THEN {} ELSE {proc.audio_chunk.data})

EchoSkipped == FxAt("roll_out") /\ ~proc.used.echo_enabled

\* C35: while echo is disabled apply_echo returns its input frame and leaves
\* the delay line as it found it: the frame does not enter the delay line and
\* the delay line does not advance.
C35_DisabledEchoLeavesDelayLine ==
    EchoSkipped =>
        /\ proc.processed =
               ChainOutput(proc.audio_chunk.data,
                           [proc.used EXCEPT !.echo_enabled = FALSE], proc.echo_before)
        /\ echo_buffer = proc.echo_before

\* a loud frame has passed the disabled echo stage while the delay line holds
\* an earlier frame
C35_Witness ==
    /\ EchoSkipped
    /\ proc.audio_chunk.data[1] # 0
    /\ \E j \in 1..Len(echo_buffer) : echo_buffer[j] # 0

-----------------------------------------------------------------------------
(* Properties of the recorder *)

\* the recorder's capture callback returns, having found the queue full
ReturnsAfterFull ==
    /\ prog = "recorder"
    /\ cb.pc \in {"evict", "retry"}
    /\ cb'.pc = "idle"

\* C36: whenever the recorder's capture callback finds the queue full, on
\* return the queue contains the new frame, as its newest entry, under every
\* interleaving with the processing loop.
C36_NewFrameQueuedAfterFull ==
    [][ReturnsAfterFull =>
          /\ audio_queue' # <<>>
          /\ audio_queue'[Len(audio_queue')].id = cb.item.id]_(cb.pc)

\* the session objects stop_recording has appended to recording_sessions
FinalizedSessions ==
    {rec.recording_sessions[i] : i \in 1..Len(rec.recording_sessions)}

\* C37: once stop_recording has finalized a session and appended it to
\* recording_sessions, the session's frames and peak_level never change,
\* whatever the processing loop and the controls do afterwards.
C37_FinalizedSessionFrozen ==
    [][prog = "recorder" =>
          \A h \in FinalizedSessions :
              /\ rec'.heap[h].frames = rec.heap[h].frames
              /\ rec'.heap[h].peak_level = rec.heap[h].peak_level]_vars

\* the processing loop is between two frames
RecBetweenFrames == prog = "recorder" /\ proc.pc \in {"check", "sleep", "get"}

\* C38: a recording session's peak_level is never negative and is at least
\* |s| for every 16-bit sample s recorded into the session, for all sample
\* values from -32768 to 32767.
C38_PeakCoversEverySample ==
    RecBetweenFrames =>
        \A h \in 1..Len(rec.heap) :
            /\ rec.heap[h].peak_level >= 0
            /\ \A f \in 1..Len(rec.heap[h].frames) :
                   \A i \in 1..Len(rec.heap[h].frames[f]) :
                       rec.heap[h].peak_level >= Abs(rec.heap[h].frames[f][i])

\* is_paused implies is_recording
PausedOnlyWhileRecording ==
    prog = "recorder" => (rec.is_paused => rec.is_recording)

\* toggle_pause and stop_recording, called with no recording active, leave
\* the recorder as it is
ControlsIdleWhenStopped ==
    (prog = "recorder" /\ ~rec.is_recording) =>
        /\ TogglePause(rec) = rec
        /\ StopRecording(rec, cb.now) = rec

\* the processing loop appends a frame to the current recording
LoopAppends ==
    /\ prog = "recorder"
    /\ proc' # proc
    /\ Len(rec'.current_recording) > Len(rec.current_recording)

====
